---- MODULE Spec2Model ----
(***************************************************************************)
(* skyrecover: the "file recover" command (recoverCmd), the sector         *)
(* download (downloadSector), the concurrent slow-path race                *)
(* (recoverSector / downloadWorker) and the Renter's contract set.         *)
(*                                                                         *)
(* The descriptor's header is fixed in Init.  The piece slots of a chunk   *)
(* are input data: the number of sectors of a slot and each sector         *)
(* reference are read at the moment the fast path reaches them, and the    *)
(* model keeps of the current chunk only what the code reads again (the    *)
(* merkle roots of the missing pieces).  A host's answer to a read is      *)
(* chosen at the read; a host that has answered "no record of that         *)
(* contract" keeps answering so.                                           *)
(***************************************************************************)
EXTENDS Integers, Sequences, FiniteSets, TLC

\* ------------------------------------------------------------------ bounds
MaxHosts == 2
MaxRoots == 2
MaxRefs == 2
MaxChunks == 2
MaxPieces == 2
MaxWorkers == 1
MaxHeight == 1
MaxRaces == 1

\* rhp.SectorSize, the length of every sector (4 MiB)
SectorSize == 4194304

\* no bytes (a nil []byte)
Nil == [root |-> 0, len |-> 0]

\* the bytes of the sector whose merkle root is r
SectorData(r) == [root |-> r, len |-> SectorSize]

\* rhp.SectorRoot: the merkle root recomputed from downloaded bytes
SectorRoot(buf) == buf.root

\* the error texts the code matches on
ErrNotFound == "could not find the desired sector"
ErrNoRecord == "no record of that contract"
ErrNoContract == "failed to get contract: no contract formed"
ErrSize == "unexpected sector size"
ErrRoot == "downloaded sector has incorrect merkle root"
NoErr == "nil"

\* strings.Contains(err.Error(), phrase): every error text of the model holds
\* exactly one of the phrases
Contains(err, phrase) == err = phrase

VARIABLES
    sf,               \* descriptor header: FileSize, PieceSize, DataPieces, ParityPieces, NumChunks
    workers,          \* the workers flag
    contracts,        \* Renter.contracts: host -> ExpirationHeight (0: no contract)
    contractsFile,    \* contracts.json in the renter's directory, as host -> ExpirationHeight
    raceCap,          \* the recoverSector invocations followed at a time
    hostCap,          \* the number of hosts that are followed
    mu,               \* Renter.mu: the goroutine that holds the mutex, "" when it is free
    rn,               \* the renter over its life: New, save step by step, Close, a stop
    wl,               \* the wallet: its outputs, the used set, the fundings outstanding
    mb,               \* metabuild: parseMetadata for one base sector
    inCall,           \* goroutine -> the method it runs and where in it the goroutine is
    lpc,              \* position of siafile.Load and of the commands around it
    meta,             \* Load: the JSON header of the descriptor (fileMetadata)
    chunks,           \* Load: the number of chunk records to decode
    loadIdx,          \* Load: i, the index of the chunk record read next
    chunkBuf,         \* Load: the record buffer, reused for every record
    fileEnd,          \* Load: the last read has met the end of the descriptor
    readLen,          \* Load: what the last io.ReadFull read, -1 before the first
    jsonOut,          \* extractmeta: the JSON document written
    decodedSf,        \* the SiaFile decoded from that document
    hpc,              \* position of the health check
    availableHosts,   \* health check: r.Hosts() as it was at the start
    sectors,          \* health check: the distinct merkle roots of the file
    hostPos, sectorPos, \* health check: position of the two loops over hosts and sectors
    queried,          \* history: the checkSector calls made for every host and sector
    held,             \* history: the (host, sector) pairs that checkSector found available
    sectorAvailability, \* health check: merkle root -> the hosts recorded for it
    health,           \* health check: the report written
    spc,              \* position of skyscan
    fileChecksum, fileLength, \* skyscan: the flags -checksum and -len
    input,            \* skyscan: the bytes of the input file
    scanIdx,          \* skyscan: i, the start of the window checked next
    scanOut,          \* skyscan: the output file, <<>> while it is not written
    currentHeight,    \* Renter.currentHeight
    lost,             \* environment: the hosts that have lost the renter's contract
    fetched,          \* history: the sectors a downloadSector call has delivered
    named,            \* the merkle roots read from the descriptor so far, numbered in
                      \* the order of their first appearance: 1..named
    pc,               \* position of the recover command
    outputFile,       \* the output file: created or not, and the chunk writes made to it
    chunkIdx, chunkSize, remainingSize,
    recoveredSectors, \* cache: merkle root -> bytes
    recovered, recoveredPieces, missingPieces,
    chunkPieces,      \* slots read from the current chunk that the slow path reads again
    pieceIdx,
    pieceLen,         \* len(piece)
    piece,            \* the merkle roots of the piece's sectors, as far as they have been read
    sectorIdx, sectorsRecovered, recoveredData,
    missIdx,          \* slow path: position in missingPieces
    races,            \* the recoverSector invocations whose goroutines may still run
    hist              \* history: what the last step was (cachedCall, redial, refetch, offList)

vars == <<sf, workers, contracts, contractsFile, raceCap, hostCap, mu, inCall, rn, wl, mb, lpc, meta, chunks, loadIdx, chunkBuf,
          fileEnd, readLen, jsonOut, decodedSf, hpc, availableHosts, sectors, hostPos,
          sectorPos, queried, held, sectorAvailability, health, spc, fileChecksum, fileLength,
          input, scanIdx, scanOut, currentHeight, lost, fetched, named, pc,
          outputFile,
          chunkIdx, chunkSize, remainingSize, recoveredSectors, recovered,
          recoveredPieces, missingPieces, chunkPieces, pieceIdx, pieceLen, piece, sectorIdx,
          sectorsRecovered, recoveredData, missIdx, races, hist>>

\* the public keys of the hosts the renter may hold a contract with
HostKeys == 1..hostCap
MerkleRoots == 1..MaxRoots

\* a sector reference of the descriptor (siafile.Piece)
Piece == [MerkleRoot : MerkleRoots, HostKey : HostKeys]

\* ------------------------------------------------------------------ erasure coder
\* ec.MinPieces(), ec.NumPieces()
MinPieces == sf.DataPieces
NumPieces == sf.DataPieces + sf.ParityPieces

\* the number of chunk records Load decodes for a header
NumChunksFor(fileSize, cs) ==
    LET whole == fileSize \div cs
    IN  IF fileSize % cs # 0 \/ whole = 0 THEN whole + 1 ELSE whole

\* ec.Recover(pieces, n, w): the error it returns, NoErr when it writes n bytes.
\* pieces[i] is the length of piece i in sectors, 0 for an absent (nil) piece.
RecoverErr(pieces) ==
    LET present == {i \in DOMAIN pieces : pieces[i] # 0}
    IN  IF Cardinality(present) < MinPieces THEN "too few shards given"
        ELSE IF \E i, j \in present : pieces[i] # pieces[j] THEN "shard sizes do not match"
        ELSE NoErr

\* ------------------------------------------------------------------ Renter
\* a HostContract that takes a contract at its ExpirationHeight for a live one
HostContractLax(hostID) ==
    contracts[hostID] # 0 /\ ~(contracts[hostID] < currentHeight)
\* Renter.HostContract: a contract exists and has not expired
HostContractOK(hostID) ==
    contracts[hostID] # 0 /\ ~(contracts[hostID] <= currentHeight)

\* Renter.Hosts: the availability set
Hosts == {h \in HostKeys : contracts[h] # 0 /\ contracts[h] > currentHeight}

\* Renter.RemoveHostContract: delete(r.contracts, hostID)
RemoveHostContract(c, hostID) == [c EXCEPT ![hostID] = 0]

\* Renter.save: contracts.json is replaced by the contracts of the map, without
\* those whose ExpirationHeight is below the current height
saveSkipped(c, height) == contractsFile
save(c, height) == [h \in HostKeys |-> IF c[h] # 0 /\ c[h] < height THEN 0 ELSE c[h]]

\* Renter.load: the contracts of contracts.json that have not expired
load(file, height) == [h \in HostKeys |-> IF file[h] <= height THEN 0 ELSE file[h]]

\* r.RemoveHostContract(hostID): the map and, by r.save(), the file
RemoveHost(hostID) ==
    /\ contracts' = RemoveHostContract(contracts, hostID)
    /\ contractsFile' = save(RemoveHostContract(contracts, hostID), currentHeight)

\* ------------------------------------------------------------------ hosts
\* what a host may answer to a read of sector s over a new session: a host that
\* has lost the contract says so at every read; another host delivers the sector,
\* does not find it, or delivers bytes that are not the sector (another content,
\* too few bytes)
Answers(h, s) ==
    {[err |-> ErrNoRecord, buf |-> Nil, dialled |-> TRUE]}
    \cup IF h \in lost THEN {}
         ELSE {[err |-> NoErr, buf |-> SectorData(s), dialled |-> TRUE],
               [err |-> ErrNotFound, buf |-> Nil, dialled |-> TRUE],
               [err |-> NoErr, buf |-> [root |-> 0, len |-> SectorSize], dialled |-> TRUE],
               [err |-> NoErr, buf |-> [root |-> s, len |-> SectorSize - 1], dialled |-> TRUE]}

\* Renter.NewSession and the read over it: without a usable contract NewSession
\* fails before the host is dialled
SessionReads(hostPub, sector) ==
    IF HostContractOK(hostPub)
    THEN Answers(hostPub, sector)
    ELSE {[err |-> ErrNoContract, buf |-> Nil, dialled |-> FALSE]}

\* downloadSector, from the read's outcome on: length check, merkle root check
downloadSectorNoVerify(rd, sector) ==
    IF rd.err # NoErr THEN [Data |-> Nil, Err |-> rd.err]
    ELSE [Data |-> rd.buf, Err |-> NoErr]

downloadSector(rd, sector) ==
    IF rd.err # NoErr THEN [Data |-> Nil, Err |-> rd.err]
    ELSE IF rd.buf.len # SectorSize THEN [Data |-> Nil, Err |-> ErrSize]
    ELSE IF SectorRoot(rd.buf) # sector THEN [Data |-> Nil, Err |-> ErrRoot]
    ELSE [Data |-> rd.buf, Err |-> NoErr]

\* the environment after a downloadSector call: the hosts that have lost the
\* contract, the sectors that have been downloaded
AfterRead(hostPub, sector, rd, res) ==
    /\ lost' = IF rd.err = ErrNoRecord THEN lost \cup {hostPub} ELSE lost
    /\ fetched' = IF res.Err = NoErr THEN fetched \cup {sector} ELSE fetched

\* history of the last step.  cachedCall: it issued a downloadSector or
\* recoverSector call for a sector that the cache held at that moment; refetch:
\* recoverCmd issued such a call for a sector that had been downloaded before;
\* redial: it opened a session to a host that had answered "no record of that
\* contract" before; offList: the fast path opened a session to a host other than
\* the one that the sector reference names
NoEvent == [cachedCall |-> FALSE, redial |-> FALSE, refetch |-> FALSE, offList |-> FALSE]

\* a call by a worker of a race
HistWork(sector) ==
    [NoEvent EXCEPT !.cachedCall = recoveredSectors[sector] # Nil]

\* a call by recoverCmd
HistCall(sector) ==
    [NoEvent EXCEPT !.cachedCall = recoveredSectors[sector] # Nil,
                    !.refetch = sector \in fetched]

HistRead(h, hostPub, rd) ==
    [h EXCEPT !.redial = rd.dialled /\ hostPub \in lost]

\* ------------------------------------------------------------------ Init
\* the descriptors: dataPieces of MaxPieces slots, and a file of MaxChunks chunks
\* whose last chunk holds one byte
Headers ==
    {[FileSize |-> MaxChunks * d - (d - 1), PieceSize |-> 1, DataPieces |-> d,
      ParityPieces |-> MaxPieces - d,
      NumChunks |-> NumChunksFor(MaxChunks * d - (d - 1), d)] : d \in 1..MaxPieces}

NoPieces == [i \in 0..(MaxPieces - 1) |-> 0]
NoSlots == [i \in 0..(MaxPieces - 1) |-> <<>>]

\* siafile.Load is not running
NoLoad ==
    /\ lpc = "idle"
    /\ meta = <<>>
    /\ chunks = 0
    /\ loadIdx = 0
    /\ chunkBuf = <<>>
    /\ fileEnd = FALSE
    /\ readLen = -1
    /\ jsonOut = <<>>
    /\ decodedSf = <<>>

\* the health check is not running
NoHealth ==
    /\ hpc = "idle"
    /\ availableHosts = <<>>
    /\ sectors = <<>>
    /\ hostPos = 1
    /\ sectorPos = 1
    /\ queried = <<>>
    /\ held = {}
    /\ sectorAvailability = <<>>
    /\ health = <<>>

\* skyscan is not running
NoScan ==
    /\ spc = "idle"
    /\ fileChecksum = 0
    /\ fileLength = 0
    /\ input = <<>>
    /\ scanIdx = 0
    /\ scanOut = <<>>

\* a run of the recover command before its first step
\* ------------------------------------------------------------------ Renter.mu
\* the goroutines of a recover run and the methods each of them calls: the
\* orchestrating goroutine (recoverCmd with the collector of recoverSector), a
\* download worker, the dispatcher and the ticker goroutine of renter.New
Calls ==
    [main |-> {"Hosts", "HostContract", "RemoveHostContract", "cacheLookup", "cacheStore"},
     worker |-> {"HostContract"},
     dispatcher |-> {"Hosts"},
     ticker |-> {"refreshHeight"}]

\* the stretches of a method that touch shared state, in order: whether the
\* stretch runs between r.mu.Lock() and r.mu.Unlock(), what it reads and writes
Sections(op) ==
    CASE op = "HostContract" ->
           <<[locked |-> TRUE, reads |-> {"contracts", "currentHeight"}, writes |-> {}]>>
      [] op = "Hosts" ->
           <<[locked |-> TRUE, reads |-> {"contracts", "currentHeight"}, writes |-> {}]>>
      [] op = "refreshHeight" ->
           <<[locked |-> TRUE, reads |-> {}, writes |-> {"currentHeight"}]>>
      [] op = "RemoveHostContract" ->
           <<[locked |-> TRUE, reads |-> {}, writes |-> {"contracts"}],
             \* r.save(): len(r.contracts), the loop over the map, the file
             [locked |-> FALSE, reads |-> {"contracts"}, writes |-> {}],
             [locked |-> TRUE, reads |-> {"contracts", "currentHeight"}, writes |-> {}],
             [locked |-> FALSE, reads |-> {}, writes |-> {"contractsFile"}]>>
      [] op = "cacheLookup" ->
           <<[locked |-> FALSE, reads |-> {"recoveredSectors"}, writes |-> {}]>>
      [] op = "cacheStore" ->
           <<[locked |-> FALSE, reads |-> {}, writes |-> {"recoveredSectors"}]>>

\* no renter life, no wallet and no parseMetadata call is followed
NoRenter == rn = <<>>
NoWallet == wl = <<>>
NoMeta == mb = <<>>

RunStart ==
    /\ mu = ""
    /\ inCall = [g \in DOMAIN Calls |-> [op |-> "", k |-> 0, in |-> FALSE]]
    /\ lost = {}
    /\ fetched = {}
    /\ named = 0
    /\ pc = "start"
    /\ outputFile = [created |-> FALSE, writes |-> <<>>]
    /\ chunkIdx = 0
    /\ chunkSize = 0
    /\ remainingSize = 0
    /\ recoveredSectors = [r \in MerkleRoots |-> Nil]
    /\ recovered = 0
    /\ recoveredPieces = NoPieces
    /\ missingPieces = <<>>
    /\ chunkPieces = NoSlots
    /\ pieceIdx = 0
    /\ pieceLen = 0
    /\ piece = <<>>
    /\ sectorIdx = 1
    /\ sectorsRecovered = 0
    /\ recoveredData = <<>>
    /\ missIdx = 1
    /\ races = <<>>
    /\ hist = NoEvent

Init ==
    /\ NoRenter
    /\ NoWallet
    /\ NoMeta
    /\ hostCap = MaxHosts
    /\ sf \in {h \in Headers : h.NumChunks <= MaxChunks}
    /\ workers \in 1..MaxWorkers
    /\ currentHeight = 0
    /\ contracts \in {c \in [HostKeys -> 0..(MaxHeight + 1)] :
                        /\ c[1] \in {0, MaxHeight + 1}
                        /\ \A h \in HostKeys : h + 1 \in HostKeys => c[h] >= c[h + 1]}
    /\ contractsFile = load(contracts, currentHeight)
    /\ raceCap = MaxRaces
    /\ NoLoad
    /\ NoHealth
    /\ NoScan
    /\ RunStart

\* ------------------------------------------------------------------ recoverCmd
pieceVars == <<pieceIdx, pieceLen, piece, sectorIdx, sectorsRecovered, recoveredData, missIdx>>
chunkVars == <<chunkIdx, chunkSize, remainingSize, recovered, recoveredPieces,
               missingPieces, chunkPieces>>
envVars == <<lost, fetched>>
loadVars == <<lpc, meta, chunks, loadIdx, chunkBuf, fileEnd, readLen, jsonOut, decodedSf>>
healthVars == <<hpc, availableHosts, sectors, hostPos, sectorPos, queried, held, sectorAvailability,
                health>>
scanVars == <<spc, fileChecksum, fileLength, input, scanIdx, scanOut>>
toolVars == <<raceCap, hostCap, mu, inCall, rn, wl, mb, loadVars, healthVars, scanVars>>
mainVars == <<toolVars, sf, workers, named, pc, outputFile, chunkVars, recoveredSectors, pieceVars>>
\* what only the recover command and its renter change
recoverVars == <<workers, contracts, contractsFile, raceCap, hostCap, mu, inCall, rn, wl, mb, currentHeight, envVars, named, pc,
                 outputFile, chunkVars, recoveredSectors, pieceVars, races, hist>>

\* the checks before the chunk loop, and os.Create(outputFile)
Start ==
    /\ pc = "start"
    /\ IF Hosts = {}
       THEN /\ pc' = "fatal"
            /\ UNCHANGED <<outputFile, chunkSize, remainingSize>>
       ELSE /\ outputFile' = [created |-> TRUE, writes |-> <<>>]
            /\ chunkSize' = sf.PieceSize * MinPieces
            /\ remainingSize' = sf.FileSize
            /\ pc' = "chunk"
    /\ UNCHANGED <<toolVars, sf, workers, named, contracts, contractsFile, currentHeight, envVars, chunkIdx,
                   recoveredSectors, recovered, recoveredPieces, missingPieces,
                   chunkPieces, pieceVars, races>>
    /\ hist' = NoEvent

\* if remainingSize < chunkSize { chunkSize = remainingSize }
ChunkLenFull(remaining, size) == size
ChunkLen(remaining, size) == IF remaining < size THEN remaining ELSE size

\* for chunkIdx, chunk := range sf.Chunks: the head of the loop body
BeginChunk ==
    /\ pc = "chunk"
    /\ IF chunkIdx >= sf.NumChunks
       THEN /\ pc' = "done"
            /\ UNCHANGED <<chunkSize, remainingSize, recovered, recoveredPieces,
                           missingPieces, chunkPieces, pieceIdx>>
       ELSE LET size == ChunkLen(remainingSize, chunkSize)
            IN  /\ chunkSize' = size
                /\ remainingSize' = remainingSize - size
                /\ recovered' = 0
                /\ recoveredPieces' = NoPieces
                /\ missingPieces' = <<>>
                /\ chunkPieces' = NoSlots
                /\ pieceIdx' = 0
                /\ pc' = "piece"
    /\ UNCHANGED <<toolVars, sf, workers, named, contracts, contractsFile, currentHeight, envVars, outputFile, chunkIdx,
                   recoveredSectors, pieceLen, piece, sectorIdx, sectorsRecovered,
                   recoveredData, missIdx, races>>
    /\ hist' = NoEvent

\* for pieceIdx, piece := range chunk.Pieces: the next slot, an empty one is
\* skipped; the sectors of the slot are read from the descriptor one by one
FastPiece ==
    /\ pc = "piece"
    /\ IF pieceIdx >= NumPieces
       THEN /\ pc' = "recover"
            /\ UNCHANGED pieceVars
       ELSE \E n \in 0..MaxRefs :
                IF n = 0
                THEN /\ pieceIdx' = pieceIdx + 1
                     /\ UNCHANGED <<pc, pieceLen, piece, sectorIdx, sectorsRecovered,
                                    recoveredData, missIdx>>
                ELSE /\ pieceLen' = n
                     /\ piece' = <<>>
                     /\ sectorIdx' = 1
                     /\ sectorsRecovered' = 0
                     /\ recoveredData' = <<>>
                     /\ pc' = "sector"
                     /\ UNCHANGED <<pieceIdx, missIdx>>
    /\ UNCHANGED <<toolVars, sf, workers, named, contracts, contractsFile, currentHeight, envVars, outputFile, chunkVars,
                   recoveredSectors, races>>
    /\ hist' = NoEvent

\* a lookup that finds nothing
CacheLookupMiss(root) == Nil
\* recoveredSectors[sector.MerkleRoot]: the cache lookup before every network call
CacheLookup(root) == recoveredSectors[root]

\* log.Printf of a warning: the command goes on from where it is
LogFatalf(at) == "fatal"
LogPrintf(at) == at

\* the errors for which the host is removed from the available hosts
NoRecordOfContract(err) == Contains(err, ErrNoRecord)

\* the host of the fast path's downloadSector call: the one the reference names
FastHostOther(sector) == CHOOSE h \in HostKeys : h # sector.HostKey
FastHost(sector) == sector.HostKey

\* for _, sector := range piece, fast path: the cache, else the listed host
FastSector ==
    /\ pc = "sector"
    /\ sectorIdx <= pieceLen
    /\ \E sector \in Piece :
         LET buf == CacheLookup(sector.MerkleRoot)
         IN  /\ sector.MerkleRoot <= named + 1
             /\ named' = IF sector.MerkleRoot > named THEN sector.MerkleRoot ELSE named
             /\ piece' = Append(piece, sector.MerkleRoot)
             /\ IF buf # Nil
                THEN /\ sectorsRecovered' = sectorsRecovered + 1
                     /\ recoveredData' = Append(recoveredData, buf)
                     /\ UNCHANGED <<pc, contracts, contractsFile, envVars, recoveredSectors>>
                     /\ hist' = NoEvent
                ELSE \E rd \in SessionReads(FastHost(sector), sector.MerkleRoot) :
                       LET res == downloadSector(rd, sector.MerkleRoot)
                       IN  /\ AfterRead(FastHost(sector), sector.MerkleRoot, rd, res)
                           /\ hist' = [HistRead(HistCall(sector.MerkleRoot),
                                                FastHost(sector), rd)
                                         EXCEPT !.offList = rd.dialled
                                                            /\ FastHost(sector) # sector.HostKey]
                           /\ IF res.Err = NoErr
                              THEN /\ sectorsRecovered' = sectorsRecovered + 1
                                   /\ recoveredSectors' = [recoveredSectors EXCEPT
                                                             ![sector.MerkleRoot] = res.Data]
                                   /\ recoveredData' = Append(recoveredData, res.Data)
                                   /\ UNCHANGED <<pc, contracts, contractsFile>>
                              ELSE /\ IF NoRecordOfContract(res.Err)
                                      THEN RemoveHost(sector.HostKey)
                                      ELSE UNCHANGED <<contracts, contractsFile>>
                                   /\ pc' = LogPrintf(pc)
                                   /\ UNCHANGED <<sectorsRecovered, recoveredSectors,
                                                  recoveredData>>
    /\ sectorIdx' = sectorIdx + 1
    /\ UNCHANGED <<toolVars, sf, workers, currentHeight, outputFile, chunkVars, pieceIdx, pieceLen,
                   missIdx, races>>

\* key.DecryptBytesInPlace(recoveredData, 0): the piece's length in sectors, 0 (nil)
\* when the decryption fails
Decrypted(data, ok) == IF ok THEN Len(data) ELSE 0

\* if recovered >= ec.MinPieces() { break }
NeverEnough(n) == FALSE
Enough(n) == n >= MinPieces

\* the end of a piece in the fast path: missing, or decrypted and counted
FastPieceEnd ==
    /\ pc = "sector"
    /\ sectorIdx > pieceLen
    /\ IF sectorsRecovered # pieceLen
       THEN /\ missingPieces' = Append(missingPieces, pieceIdx)
            /\ chunkPieces' = [chunkPieces EXCEPT ![pieceIdx] = piece]
            /\ pieceIdx' = pieceIdx + 1
            /\ pc' = "piece"
            /\ UNCHANGED <<recovered, recoveredPieces>>
       ELSE \E ok \in BOOLEAN :
              /\ recoveredPieces' =
                    [recoveredPieces EXCEPT ![pieceIdx] = Decrypted(recoveredData, ok)]
              /\ recovered' = recovered + 1
              /\ IF Enough(recovered + 1)
                 THEN pc' = "recover" /\ UNCHANGED pieceIdx
                 ELSE pc' = "piece" /\ pieceIdx' = pieceIdx + 1
              /\ UNCHANGED <<missingPieces, chunkPieces>>
    /\ pieceLen' = 0
    /\ piece' = <<>>
    /\ sectorIdx' = 1
    /\ sectorsRecovered' = 0
    /\ recoveredData' = <<>>
    /\ UNCHANGED <<toolVars, sf, workers, named, contracts, contractsFile, currentHeight, envVars, outputFile, chunkIdx,
                   chunkSize, remainingSize, recoveredSectors, missIdx, races>>
    /\ hist' = NoEvent

\* ec.Recover(recoveredPieces, chunkSize, output), log.Fatalf on its error
WriteChunk ==
    IF RecoverErr(recoveredPieces) # NoErr
    THEN /\ pc' = "fatal"
         /\ races' = <<>>
         /\ UNCHANGED <<outputFile, chunkIdx>>
    ELSE /\ outputFile' = [outputFile EXCEPT
                              !.writes = Append(@, [chunk |-> chunkIdx, n |-> chunkSize])]
         /\ chunkIdx' = chunkIdx + 1
         /\ pc' = "chunk"
         /\ UNCHANGED races

\* if enough pieces have been downloaded, recover the chunk; else the slow path
AfterFast ==
    /\ pc = "recover"
    /\ IF recovered >= MinPieces
       THEN WriteChunk /\ UNCHANGED missIdx
       ELSE /\ pc' = "slowPiece"
            /\ missIdx' = 1
            /\ UNCHANGED <<outputFile, chunkIdx, races>>
    /\ UNCHANGED <<toolVars, sf, workers, named, contracts, contractsFile, currentHeight, envVars, chunkSize, remainingSize,
                   recoveredSectors, recovered, recoveredPieces, missingPieces, chunkPieces,
                   pieceIdx, pieceLen, piece, sectorIdx, sectorsRecovered, recoveredData>>
    /\ hist' = NoEvent

\* ------------------------------------------------------------------ recoverSector
\* the channels, context and goroutines of one recoverSector call
NewRace(sector) ==
    [sector |-> sector,
     returned |-> FALSE,        \* recoverSector has returned to recoverCmd
     cancelled |-> FALSE,       \* ctx.Done() is closed
     disp |-> "hosts",          \* dispatcher: "hosts", "send", "done"
     todo |-> {},               \* availableHosts not yet sent
     workChan |-> <<>>, workClosed |-> FALSE,
     dl |-> {},                 \* hosts a worker is downloading from
     res |-> {},                \* results a worker holds and has yet to send
     exited |-> 0,              \* workers that returned (wg.Done)
     resultsChan |-> <<>>, resultsClosed |-> FALSE,
     availableHosts |-> {},              \* the dispatcher's r.Hosts()
     asked |-> [h \in HostKeys |-> 0],   \* history: downloadSector calls per host
     verified |-> {}]                    \* history: the hosts that delivered the sector

\* history counter, saturating
Inc2(n) == IF n < 2 THEN n + 1 ELSE n

\* result{HostKey, Data, Err}: the collector reads of an error only whether it
\* is nil and whether its text holds one of the two phrases, so every other
\* error text is kept as one
ErrOther == "other error"
Result(h, res) ==
    [HostKey |-> h, Data |-> res.Data,
     Err |-> IF res.Err \in {NoErr, ErrNotFound, ErrNoRecord} THEN res.Err ELSE ErrOther]

\* workers blocked in the select of downloadWorker
Idle(rc) == workers - Cardinality(rc.dl) - Cardinality(rc.res) - rc.exited

\* every goroutine of the call has ended
Quiet(rc) ==
    /\ rc.returned
    /\ rc.disp = "done"
    /\ rc.exited = workers
    /\ rc.resultsClosed

\* no further download can come of the call
Spent(rc) ==
    /\ rc.dl = {}
    /\ rc.workChan = <<>>
    /\ rc.disp = "done" \/ rc.exited = workers

\* after the return nobody reads the results or the history of the call, and
\* what a goroutine that has ended leaves behind is read by nobody either
Forget(rc) ==
    IF rc.returned
    THEN [rc EXCEPT !.resultsChan = [i \in 1..Len(@) |-> Result(0, [Err |-> NoErr, Data |-> Nil])],
                    !.res = {Result(r.HostKey, [Err |-> NoErr, Data |-> Nil]) : r \in @},
                    !.availableHosts = {},
                    !.asked = [h \in HostKeys |-> 0],
                    !.verified = {},
                    !.todo = IF rc.disp = "done" THEN {} ELSE @,
                    !.sector = IF Spent(rc) THEN 0 ELSE @]
    ELSE rc

RECURSIVE Live(_)
Live(rs) ==
    IF rs = <<>> THEN <<>>
    ELSE IF Quiet(Head(rs)) THEN Live(Tail(rs))
    ELSE <<Forget(Head(rs))>> \o Live(Tail(rs))

SetRace(i, rc) == Live([races EXCEPT ![i] = rc])

\* recoverSector returns: cancel() (called, or deferred) closes ctx.Done()
KeepCollecting(rc) == [rc EXCEPT !.cancelled = TRUE]
Return(rc) == [rc EXCEPT !.cancelled = TRUE, !.returned = TRUE]

Running == pc \notin {"done", "fatal"}

\* the dispatcher starts: availableHosts := r.Hosts(); without a host the loop
\* is empty and the work channel is closed at once
DispatcherHosts(i) ==
    /\ Running
    /\ races[i].disp = "hosts"
    /\ races' = SetRace(i,
          IF Hosts = {}
          THEN [races[i] EXCEPT !.workClosed = TRUE, !.disp = "done"]
          ELSE [races[i] EXCEPT !.availableHosts = Hosts, !.todo = Hosts, !.disp = "send"])
    /\ UNCHANGED <<mainVars, contracts, contractsFile, currentHeight, envVars>>
    /\ hist' = NoEvent

\* workChan <- work{SectorRoot: sector, HostKey: host}, for a host whose turn has
\* passed the check of ctx.Done(); then close(workChan) after the last host, or
\* the return when the context is done by now
DispatcherSend(i) ==
    LET rc == races[i]
    IN  /\ Running
        /\ rc.disp = "send"
        /\ Len(rc.workChan) < workers
        /\ \E host \in rc.todo :
              races' = SetRace(i,
                 [rc EXCEPT !.workChan = Append(@, host),
                            !.todo = @ \ {host},
                            !.workClosed = (rc.todo = {host}),
                            !.disp = IF rc.todo = {host} \/ rc.cancelled
                                     THEN "done" ELSE "send"])
        /\ UNCHANGED <<mainVars, contracts, contractsFile, currentHeight, envVars>>
        /\ hist' = NoEvent

\* the dispatcher's case <-ctx.Done(): return, the work channel stays open
DispatcherStop(i) ==
    LET rc == races[i]
    IN  /\ Running
        /\ rc.disp = "send"
        /\ rc.cancelled
        /\ races' = SetRace(i, [rc EXCEPT !.disp = "done"])
        /\ UNCHANGED <<mainVars, contracts, contractsFile, currentHeight, envVars>>
        /\ hist' = NoEvent

\* downloadWorker: case piece, ok := <-workChan with a work item
WorkerRecv(i) ==
    LET rc == races[i]
    IN  /\ Running
        /\ Idle(rc) > 0
        /\ rc.workChan # <<>>
        /\ races' = SetRace(i, [rc EXCEPT !.workChan = Tail(@),
                                          !.dl = @ \cup {Head(rc.workChan)},
                                          !.asked[Head(rc.workChan)] = Inc2(@)])
        /\ hist' = HistWork(rc.sector)
        /\ UNCHANGED <<mainVars, contracts, contractsFile, currentHeight, envVars>>

\* case piece, ok := <-workChan with !ok: the work channel is closed and drained
NoMoreWorkEarly(rc) == rc.workClosed
NoMoreWork(rc) == rc.workClosed /\ rc.workChan = <<>>

\* downloadWorker: case <-ctx.Done(), or the work channel is closed and drained
WorkerStop(i) ==
    LET rc == races[i]
    IN  /\ Running
        /\ Idle(rc) > 0
        /\ rc.cancelled \/ NoMoreWork(rc)
        /\ races' = SetRace(i, [rc EXCEPT !.exited = @ + 1])
        /\ UNCHANGED <<mainVars, contracts, contractsFile, currentHeight, envVars>>
        /\ hist' = NoEvent

\* downloadWorker: downloadSector(r, piece.HostKey, piece.SectorRoot) returns and
\* the result is sent when the results channel has room
WorkerDownload(i) ==
    LET rc == races[i]
    IN  \E host \in rc.dl :
          \E rd \in SessionReads(host, rc.sector) :
            LET res == downloadSector(rd, rc.sector)
            IN  /\ Running
                /\ UNCHANGED <<mainVars, contracts, contractsFile, currentHeight>>
                /\ AfterRead(host, rc.sector, rd, res)
                /\ hist' = HistRead(NoEvent, host, rd)
                /\ races' = SetRace(i,
                      LET got == [rc EXCEPT !.dl = @ \ {host},
                                            !.verified = IF res.Err = NoErr
                                                         THEN @ \cup {host} ELSE @]
                      IN  IF Len(rc.resultsChan) < workers
                          THEN [got EXCEPT !.resultsChan = Append(@, Result(host, res))]
                          ELSE [got EXCEPT !.res = @ \cup {Result(host, res)}])

\* downloadWorker: resultsChan <- result{...}, after waiting for room
WorkerSend(i) ==
    LET rc == races[i]
    IN  /\ Running
        /\ Len(rc.resultsChan) < workers
        /\ \E r \in rc.res :
              races' = SetRace(i, [rc EXCEPT !.res = @ \ {r},
                                             !.resultsChan = Append(@, r)])
        /\ UNCHANGED <<mainVars, contracts, contractsFile, currentHeight, envVars>>
        /\ hist' = NoEvent

\* wg.Wait(); close(resultsChan)
Closer(i) ==
    LET rc == races[i]
    IN  /\ Running
        /\ rc.exited = workers
        /\ ~rc.resultsClosed
        /\ races' = SetRace(i, [rc EXCEPT !.resultsClosed = TRUE])
        /\ UNCHANGED <<mainVars, contracts, contractsFile, currentHeight, envVars>>
        /\ hist' = NoEvent

\* ------------------------------------------------------------------ slow path
\* for _, pieceIdx := range missingPieces
SlowPiece ==
    /\ pc = "slowPiece"
    /\ IF missIdx > Len(missingPieces)
       THEN /\ pc' = "slowRecover"
            /\ UNCHANGED pieceVars
       ELSE /\ pieceIdx' = missingPieces[missIdx]
            /\ piece' = chunkPieces[missingPieces[missIdx]]
            /\ pieceLen' = Len(chunkPieces[missingPieces[missIdx]])
            /\ sectorIdx' = 1
            /\ sectorsRecovered' = 0
            /\ recoveredData' = <<>>
            /\ pc' = "slowSector"
            /\ UNCHANGED missIdx
    /\ UNCHANGED <<toolVars, sf, workers, named, contracts, contractsFile, currentHeight, envVars, outputFile, chunkVars,
                   recoveredSectors, races>>
    /\ hist' = NoEvent

\* for _, sector := range piece, slow path: the cache, else recoverSector is called
SlowSector ==
    /\ pc = "slowSector"
    /\ sectorIdx <= pieceLen
    /\ LET sector == [MerkleRoot |-> piece[sectorIdx]]
           buf == CacheLookup(sector.MerkleRoot)
       IN  IF buf # Nil
           THEN /\ sectorsRecovered' = sectorsRecovered + 1
                /\ recoveredData' = Append(recoveredData, buf)
                /\ sectorIdx' = sectorIdx + 1
                /\ UNCHANGED <<pc, races>>
                /\ hist' = NoEvent
           ELSE /\ Len(races) < raceCap
                /\ races' = Append(races, NewRace(sector.MerkleRoot))
                /\ hist' = HistCall(sector.MerkleRoot)
                /\ pc' = "race"
                /\ UNCHANGED <<sectorsRecovered, recoveredData, sectorIdx>>
    /\ UNCHANGED <<toolVars, sf, workers, named, contracts, contractsFile, currentHeight, envVars, outputFile, chunkVars,
                   recoveredSectors, pieceIdx, pieceLen, piece, missIdx>>

\* for result := range resultsChan: one result is received
Collect ==
    /\ pc = "race"
    /\ LET i == Len(races)
           rc == races[i]
           result == Head(rc.resultsChan)
           rest == [rc EXCEPT !.resultsChan = Tail(@)]
       IN  /\ rc.resultsChan # <<>>
           /\ IF result.Err = NoErr
              THEN \* cancel(); return result.Data, true
                   /\ races' = SetRace(i, Return(rest))
                   /\ sectorsRecovered' = sectorsRecovered + 1
                   /\ recoveredData' = Append(recoveredData, result.Data)
                   /\ sectorIdx' = sectorIdx + 1
                   /\ pc' = "slowSector"
                   /\ UNCHANGED <<contracts, contractsFile>>
                   /\ hist' = NoEvent
              ELSE /\ races' = SetRace(i, rest)
                   /\ IF ~Contains(result.Err, ErrNotFound) /\ NoRecordOfContract(result.Err)
                      THEN RemoveHost(result.HostKey)
                      ELSE UNCHANGED <<contracts, contractsFile>>
                   /\ UNCHANGED <<pc, sectorsRecovered, recoveredData, sectorIdx>>
                   /\ hist' = NoEvent
    /\ UNCHANGED <<toolVars, sf, workers, named, currentHeight, envVars, outputFile, chunkVars,
                   recoveredSectors, pieceIdx, pieceLen, piece, missIdx>>

\* the results channel is closed and drained: return nil, false (and the deferred cancel)
CollectEnd ==
    /\ pc = "race"
    /\ LET i == Len(races)
           rc == races[i]
       IN  /\ rc.resultsChan = <<>>
           /\ rc.resultsClosed
           /\ races' = SetRace(i, Return(rc))
    /\ sectorIdx' = sectorIdx + 1
    /\ pc' = LogPrintf("slowSector")
    /\ UNCHANGED <<toolVars, sf, workers, named, contracts, contractsFile, currentHeight, envVars, outputFile, chunkVars,
                   recoveredSectors, pieceIdx, pieceLen, piece, sectorsRecovered,
                   recoveredData, missIdx>>
    /\ hist' = NoEvent

\* the end of a piece in the slow path
SlowPieceEnd ==
    /\ pc = "slowSector"
    /\ sectorIdx > pieceLen
    /\ IF sectorsRecovered # pieceLen
       THEN /\ missIdx' = missIdx + 1
            /\ pc' = "slowPiece"
            /\ UNCHANGED <<recovered, recoveredPieces>>
       ELSE \E ok \in BOOLEAN :
              /\ recoveredPieces' =
                    [recoveredPieces EXCEPT ![pieceIdx] = Decrypted(recoveredData, ok)]
              /\ recovered' = recovered + 1
              /\ IF Enough(recovered + 1)
                 THEN pc' = "slowRecover" /\ UNCHANGED missIdx
                 ELSE pc' = "slowPiece" /\ missIdx' = missIdx + 1
    /\ pieceLen' = 0
    /\ piece' = <<>>
    /\ sectorIdx' = 1
    /\ sectorsRecovered' = 0
    /\ recoveredData' = <<>>
    /\ chunkPieces' = [chunkPieces EXCEPT ![pieceIdx] = <<>>]
    /\ UNCHANGED <<toolVars, sf, workers, named, contracts, contractsFile, currentHeight, envVars, outputFile, chunkIdx,
                   chunkSize, remainingSize, recoveredSectors, missingPieces, pieceIdx, races>>
    /\ hist' = NoEvent

\* after the slow path: ec.Recover with whatever was recovered
SlowRecover ==
    /\ pc = "slowRecover"
    /\ WriteChunk
    /\ missIdx' = 1
    /\ UNCHANGED <<toolVars, sf, workers, named, contracts, contractsFile, currentHeight, envVars, chunkSize, remainingSize,
                   recoveredSectors, recovered, recoveredPieces, missingPieces, chunkPieces,
                   pieceIdx, pieceLen, piece, sectorIdx, sectorsRecovered, recoveredData>>
    /\ hist' = NoEvent

\* ------------------------------------------------------------------ Renter, height
\* a refresh that may also store a tip below the height seen before
RefreshHeightBack ==
    /\ Running
    /\ \E tip \in 0..MaxHeight : tip # currentHeight /\ currentHeight' = tip
    /\ UNCHANGED <<mainVars, contracts, contractsFile, envVars, races>>
    /\ hist' = NoEvent

\* the ticker goroutine of renter.New: refreshHeight stores the chain tip
RefreshHeight ==
    /\ Running
    /\ \E tip \in (currentHeight + 1)..MaxHeight : currentHeight' = tip
    /\ UNCHANGED <<mainVars, contracts, contractsFile, envVars, races>>
    /\ hist' = NoEvent

Next ==
    \/ Start
    \/ BeginChunk
    \/ FastPiece
    \/ FastSector
    \/ FastPieceEnd
    \/ AfterFast
    \/ SlowPiece
    \/ SlowSector
    \/ Collect
    \/ CollectEnd
    \/ SlowPieceEnd
    \/ SlowRecover
    \/ RefreshHeight
    \/ \E i \in DOMAIN races : DispatcherHosts(i)
    \/ \E i \in DOMAIN races : DispatcherSend(i)
    \/ \E i \in DOMAIN races : DispatcherStop(i)
    \/ \E i \in DOMAIN races : WorkerRecv(i)
    \/ \E i \in DOMAIN races : WorkerStop(i)
    \/ \E i \in DOMAIN races : WorkerDownload(i)
    \/ \E i \in DOMAIN races : WorkerSend(i)
    \/ \E i \in DOMAIN races : Closer(i)

Spec == Init /\ [][Next]_vars

\* the recover command followed with the goroutines that a returned recoverSector
\* call has left running next to those of the following call: a file of one
\* chunk, every host under contract
InitOverlap ==
    /\ NoRenter
    /\ NoWallet
    /\ NoMeta
    /\ hostCap = MaxHosts
    /\ sf = [FileSize |-> 1, PieceSize |-> 1, DataPieces |-> 1,
             ParityPieces |-> MaxPieces - 1, NumChunks |-> NumChunksFor(1, 1)]
    /\ workers \in 1..MaxWorkers
    /\ currentHeight = 0
    /\ contracts = [h \in HostKeys |-> MaxHeight + 1]
    /\ contractsFile = load(contracts, currentHeight)
    /\ raceCap = MaxRaces + 1
    /\ NoLoad
    /\ NoHealth
    /\ NoScan
    /\ RunStart

SpecOverlap == InitOverlap /\ [][Next]_vars

\* the recover command with one host more than the workers and the results
\* channel can take up between them: a file of one chunk, every host under contract
InitLeak ==
    /\ NoRenter
    /\ NoWallet
    /\ NoMeta
    /\ hostCap = MaxHosts + 1
    /\ sf = [FileSize |-> 1, PieceSize |-> 1, DataPieces |-> 1,
             ParityPieces |-> MaxPieces - 1, NumChunks |-> NumChunksFor(1, 1)]
    /\ workers \in 1..MaxWorkers
    /\ currentHeight = 0
    /\ contracts = [h \in HostKeys |-> MaxHeight + 1]
    /\ contractsFile = load(contracts, currentHeight)
    /\ raceCap = MaxRaces
    /\ NoLoad
    /\ NoHealth
    /\ NoScan
    /\ RunStart

SpecLeak == InitLeak /\ [][Next]_vars

\* ------------------------------------------------------------------ Renter.mu, steps
\* a goroutine calls one of its methods and comes to the method's first stretch
Call(g) ==
    /\ inCall[g].k = 0
    /\ \E op \in Calls[g] : inCall' = [inCall EXCEPT ![g] = [op |-> op, k |-> 1, in |-> FALSE]]
    /\ UNCHANGED <<mu, contracts, contractsFile, currentHeight>>
    /\ UNCHANGED <<sf, workers, raceCap, hostCap, rn, wl, mb, envVars, named, pc, outputFile,
                   chunkVars, recoveredSectors, pieceVars, races, hist, loadVars,
                   healthVars, scanVars>>

\* the goroutine enters the stretch, through r.mu.Lock() when the stretch is a
\* locked one
EnterNoLock(g) ==
    /\ inCall[g].k > 0
    /\ ~inCall[g].in
    /\ mu' = IF Sections(inCall[g].op)[inCall[g].k].locked THEN g ELSE mu
    /\ inCall' = [inCall EXCEPT ![g].in = TRUE]
    /\ UNCHANGED <<contracts, contractsFile, currentHeight>>
    /\ UNCHANGED <<sf, workers, raceCap, hostCap, rn, wl, mb, envVars, named, pc, outputFile,
                   chunkVars, recoveredSectors, pieceVars, races, hist, loadVars,
                   healthVars, scanVars>>

Enter(g) ==
    /\ inCall[g].k > 0
    /\ ~inCall[g].in
    /\ Sections(inCall[g].op)[inCall[g].k].locked => mu = ""
    /\ mu' = IF Sections(inCall[g].op)[inCall[g].k].locked THEN g ELSE mu
    /\ inCall' = [inCall EXCEPT ![g].in = TRUE]
    /\ UNCHANGED <<contracts, contractsFile, currentHeight>>
    /\ UNCHANGED <<sf, workers, raceCap, hostCap, rn, wl, mb, envVars, named, pc, outputFile,
                   chunkVars, recoveredSectors, pieceVars, races, hist, loadVars,
                   healthVars, scanVars>>

\* the goroutine ends the stretch, with its writes made (delete(r.contracts,
\* hostID); r.currentHeight = tip.Height; contracts.json replaced) and through
\* r.mu.Unlock() when the stretch is a locked one
Leave(g) ==
    LET sec == Sections(inCall[g].op)[inCall[g].k]
    IN  /\ inCall[g].in
        /\ mu' = IF sec.locked THEN "" ELSE mu
        /\ inCall' = [inCall EXCEPT ![g] = IF inCall[g].k = Len(Sections(inCall[g].op))
                                   THEN [op |-> "", k |-> 0, in |-> FALSE]
                                   ELSE [@ EXCEPT !.k = @ + 1, !.in = FALSE]]
        /\ IF "contracts" \in sec.writes
           THEN \E hostID \in HostKeys : contracts' = RemoveHostContract(contracts, hostID)
           ELSE UNCHANGED contracts
        /\ IF "currentHeight" \in sec.writes
           THEN \E tip \in currentHeight..MaxHeight : currentHeight' = tip
           ELSE UNCHANGED currentHeight
        /\ IF "contractsFile" \in sec.writes
           THEN contractsFile' = save(contracts, currentHeight)
           ELSE UNCHANGED contractsFile
        /\ UNCHANGED <<sf, workers, raceCap, hostCap, rn, wl, mb, envVars, named, pc, outputFile,
                   chunkVars,
                       recoveredSectors, pieceVars, races, hist, loadVars, healthVars, scanVars>>

InitLock ==
    /\ NoRenter
    /\ NoWallet
    /\ NoMeta
    /\ hostCap = MaxHosts
    /\ sf = [FileSize |-> 1, PieceSize |-> 1, DataPieces |-> 1,
             ParityPieces |-> MaxPieces - 1, NumChunks |-> NumChunksFor(1, 1)]
    /\ workers = 1
    /\ currentHeight = 0
    /\ contracts = [h \in HostKeys |-> MaxHeight + 1]
    /\ contractsFile = contracts
    /\ raceCap = MaxRaces
    /\ RunStart
    /\ NoLoad
    /\ NoHealth
    /\ NoScan

NextLock ==
    \/ \E g \in DOMAIN Calls : Call(g)
    \/ \E g \in DOMAIN Calls : Enter(g)
    \/ \E g \in DOMAIN Calls : Leave(g)

SpecLock == InitLock /\ [][NextLock]_vars

\* ------------------------------------------------------------------ Renter, its life
\* every variable but contracts and the three records rn, wl and mb
restVars == <<sf, workers, contractsFile, raceCap, hostCap, mu, inCall, currentHeight, envVars,
              named, pc, outputFile, chunkVars, recoveredSectors, pieceVars, races, hist,
              loadVars, healthVars, scanVars>>

\* a file of the renter's directory: absent, complete (a whole JSON document of
\* the contracts given) or partial (created or cut short: no JSON document)
NoFile == [state |-> "absent", contracts |-> [h \in HostKeys |-> 0]]

\* renter.New: the Renter is made with renterKey, dir and contracts only, so its
\* close channel is the zero value, nil; the ticker goroutine is started; load
\* reads contracts.json, and a missing file alone is accepted
RenterNew ==
    /\ rn # <<>>
    /\ rn.pc = "start"
    /\ IF rn.json.state = "absent"
       THEN /\ contracts' = [h \in HostKeys |-> 0]
            /\ rn' = [rn EXCEPT !.pc = "ready", !.close = "nil", !.ticker = TRUE,
                                !.loadErr = "not exist"]
       ELSE IF rn.json.state = "partial"
       THEN /\ contracts' = [h \in HostKeys |-> 0]
            /\ rn' = [rn EXCEPT !.pc = "newFailed", !.close = "nil", !.ticker = TRUE,
                                !.loadErr = "decode"]
       ELSE /\ contracts' = load(rn.json.contracts, currentHeight)
            /\ rn' = [rn EXCEPT !.pc = "save", !.after = "ready", !.close = "nil",
                                !.ticker = TRUE, !.loadErr = NoErr]
    /\ UNCHANGED <<restVars, wl, mb>>

\* RemoveHostContract: the contract is deleted and the set is saved
RemoveCall ==
    /\ rn # <<>>
    /\ rn.pc = "ready"
    /\ \E hostID \in HostKeys : contracts' = RemoveHostContract(contracts, hostID)
    /\ rn' = [rn EXCEPT !.pc = "save", !.after = "ready"]
    /\ UNCHANGED <<restVars, wl, mb>>

\* FormDownloadContract, its end: the contract formed with the host is stored and
\* the set is saved
FormCall ==
    /\ rn # <<>>
    /\ rn.pc = "ready"
    /\ \E hostKey \in HostKeys, expiration \in 1..(MaxHeight + 1) :
          contracts' = [contracts EXCEPT ![hostKey] = expiration]
    /\ rn' = [rn EXCEPT !.pc = "save", !.after = "ready"]
    /\ UNCHANGED <<restVars, wl, mb>>

\* save, its first part: the contracts not yet expired are copied under the lock
\* (before keeps contracts.json as this save found it)
SaveBuild ==
    /\ rn # <<>>
    /\ rn.pc = "save"
    /\ rn' = [rn EXCEPT !.pc = "create", !.meta = save(contracts, currentHeight),
                        !.before = rn.json]
    /\ UNCHANGED <<restVars, contracts, wl, mb>>

\* a save that opens contracts.json itself instead of the temporary file
SaveCreateInPlace ==
    /\ rn # <<>>
    /\ rn.pc = "create"
    /\ rn' = [rn EXCEPT !.pc = "encode",
                        !.json = [state |-> "partial", contracts |-> NoFile.contracts]]
    /\ UNCHANGED <<restVars, contracts, wl, mb>>

\* save: os.Create makes contracts.json.tmp, or truncates the one a stopped save left
SaveCreate ==
    /\ rn # <<>>
    /\ rn.pc = "create"
    /\ rn' = [rn EXCEPT !.pc = "encode",
                        !.tmp = [state |-> "partial", contracts |-> NoFile.contracts]]
    /\ UNCHANGED <<restVars, contracts, wl, mb>>

\* save: the document is encoded into the temporary file, synced and closed
SaveEncode ==
    /\ rn # <<>>
    /\ rn.pc = "encode"
    /\ rn' = [rn EXCEPT !.pc = "rename",
                        !.tmp = [state |-> "complete", contracts |-> rn.meta]]
    /\ UNCHANGED <<restVars, contracts, wl, mb>>

\* save: os.Rename puts the temporary file in the place of contracts.json
SaveRename ==
    /\ rn # <<>>
    /\ rn.pc = "rename"
    /\ rn' = [rn EXCEPT !.pc = rn.after, !.json = rn.tmp, !.tmp = NoFile]
    /\ UNCHANGED <<restVars, contracts, wl, mb>>

\* Close: a closed channel returns at once; otherwise close(r.close), which
\* panics on a nil channel, and then save; the ticker goroutine stops when its
\* receive from r.close can proceed, which it never can on a nil channel
RenterClose ==
    /\ rn # <<>>
    /\ rn.pc \in {"ready", "closed"}
    /\ IF rn.close = "closed"
       THEN rn' = [rn EXCEPT !.closes = 1]
       ELSE IF rn.close = "nil"
       THEN rn' = [rn EXCEPT !.pc = "panic"]
       ELSE rn' = [rn EXCEPT !.pc = "save", !.after = "closed", !.close = "closed",
                             !.ticker = FALSE]
    /\ UNCHANGED <<restVars, contracts, wl, mb>>

\* the process stops, wherever it is, and is started again on the files it left
RenterStop ==
    /\ rn # <<>>
    /\ rn.pc \notin {"start", "newFailed"}
    /\ rn' = [rn EXCEPT !.pc = "start", !.ticker = FALSE,
                        !.stops = IF rn.pc \in {"save", "create", "encode", "rename"}
                                  THEN "inSave" ELSE "other"]
    /\ UNCHANGED <<restVars, contracts, wl, mb>>

InitRenter ==
    /\ NoWallet
    /\ NoMeta
    /\ hostCap = MaxHosts
    /\ sf = [FileSize |-> 1, PieceSize |-> 1, DataPieces |-> 1,
             ParityPieces |-> MaxPieces - 1, NumChunks |-> NumChunksFor(1, 1)]
    /\ workers = 1
    /\ currentHeight \in 0..MaxHeight
    /\ contracts = [h \in HostKeys |-> 0]
    /\ contractsFile = contracts
    /\ raceCap = MaxRaces
    /\ RunStart
    /\ NoLoad
    /\ NoHealth
    /\ NoScan
    /\ \E file \in {NoFile} \cup {[state |-> "complete", contracts |-> c] :
                                   c \in [HostKeys -> 0..(MaxHeight + 1)]} :
          rn = [pc |-> "start", close |-> "nil", ticker |-> FALSE, tmp |-> NoFile,
                json |-> file, meta |-> NoFile.contracts, after |-> "ready",
                loadErr |-> NoErr, stops |-> "none", before |-> file, closes |-> 0]

NextRenter ==
    \/ RenterNew
    \/ RemoveCall
    \/ FormCall
    \/ SaveBuild
    \/ SaveCreate
    \/ SaveEncode
    \/ SaveRename
    \/ RenterClose
    \/ RenterStop

SpecRenter == InitRenter /\ [][NextRenter]_vars

\* ------------------------------------------------------------------ siafile.Load
\* a chunk record (4096 bytes in the descriptor) is followed as a sequence of
\* cells: the 19 bytes up to and with the piece count, then the piece entries of
\* 40 bytes each that fit in the record
MaxEntries == 2
RecordLen == 1 + MaxEntries

\* the piece counts a record may declare, one more than fit among them
Counts == 0..(MaxEntries + 1)

\* the piece entries of a descriptor: all that are in range, one with a
\* pieceIndex and one with a hostIndex that is out of range
Entries ==
    {[pieceIndex |-> p, hostIndex |-> h, MerkleRoot |-> r] :
        p \in 0..(MaxPieces - 1), h \in 0..(MaxHosts - 1), r \in MerkleRoots}
    \cup {[pieceIndex |-> MaxPieces, hostIndex |-> 0, MerkleRoot |-> 1],
          [pieceIndex |-> 0, hostIndex |-> MaxHosts, MerkleRoot |-> 1]}

\* make([]byte, 4096)
ZeroBuf == <<0>> \o [k \in 1..MaxEntries |-> [pieceIndex |-> 0, hostIndex |-> 0, MerkleRoot |-> 0]]

\* the first n cells of a record, as the descriptor may hold them
RecordBytes(n) ==
    IF n = 0 THEN {<<>>}
    ELSE {<<c>> \o es : c \in Counts, es \in [1..(n - 1) -> Entries]}

\* what io.ReadFull(f, chunkBuf) may read: nothing at the end of the file, else
\* a whole record, or the rest of the file when that is shorter
ReadLens == IF fileEnd THEN {0} ELSE 0..RecordLen

\* the read into the buffer: the bytes beyond the n read stay as they were
ReadFull(buf, data) == data \o SubSeq(buf, Len(data) + 1, Len(buf))

\* io.ReadFull's error for n bytes read
ErrEOF == "EOF"
ErrUnexpectedEOF == "unexpected EOF"
ReadErr(n) == IF n = RecordLen THEN NoErr ELSE IF n = 0 THEN ErrEOF ELSE ErrUnexpectedEOF

\* err != nil && !errors.Is(err, io.ErrUnexpectedEOF)
ReadFails(err) == err # NoErr /\ err # ErrUnexpectedEOF

\* the descriptor headers: the erasure-coding types 1 and 2 and an unknown one,
\* a master key that is absent or one byte long, sizes for up to MaxChunks chunks,
\* a host table of MaxHosts keys or, with a chunk offset far enough below the
\* host table's, a host count of -1
EncoderTypes == 1..3
PieceSizes == 0..1
MasterKeys == {<<>>, <<1>>}
Metas ==
    {m \in [FileSize : 0..(MaxChunks + 1), PieceSize : PieceSizes,
            ErasureCodeType : EncoderTypes, DataPieces : 1..MaxPieces,
            ParityPieces : 0..(MaxPieces - 1), MasterKey : MasterKeys,
            hostKeys : {-1, MaxHosts}] :
        /\ m.DataPieces + m.ParityPieces = MaxPieces
        /\ m.PieceSize # 0 =>
              NumChunksFor(m.FileSize, m.PieceSize * m.DataPieces) <= MaxChunks}

\* SiaFile{}
NoSiaFile ==
    [FileSize |-> 0, PieceSize |-> 0, EncoderType |-> 0, DataPieces |-> 0,
     ParityPieces |-> 0, MasterKey |-> <<>>, Chunks |-> <<>>]

\* hostTable: the host key at every index of the host table
hostTable == [k \in 0..(meta.hostKeys - 1) |-> k + 1]

\* InitErasureCoder: its error
InitErasureCoderErr(ecType) ==
    IF ecType \in {1, 2} THEN NoErr ELSE "unknown erasure coder type"

\* chunk.Pieces[pieceIndex] = append(chunk.Pieces[pieceIndex], piece)
AppendPieceFirst(pieces, pieceIndex, p) == [pieces EXCEPT ![pieceIndex] = <<p>> \o @]
AppendPiece(pieces, pieceIndex, p) == [pieces EXCEPT ![pieceIndex] = Append(@, p)]

\* the loop over the piece entries of the record in the buffer, from entry j on
RECURSIVE ParsePieces(_, _, _)
ParsePieces(buf, j, pieces) ==
    IF j >= buf[1] THEN [Err |-> NoErr, Pieces |-> pieces]
    ELSE IF j >= MaxEntries THEN [Err |-> "failed to read piece index", Pieces |-> pieces]
    ELSE LET e == buf[j + 2]
         IN  IF e.pieceIndex >= sf.DataPieces + sf.ParityPieces
             THEN [Err |-> "piece index out of range", Pieces |-> pieces]
             ELSE IF e.hostIndex >= meta.hostKeys
             THEN [Err |-> "host index out of range", Pieces |-> pieces]
             ELSE ParsePieces(buf, j + 1,
                     AppendPiece(pieces, e.pieceIndex,
                                 [MerkleRoot |-> e.MerkleRoot, HostKey |-> hostTable[e.hostIndex]]))

\* Load up to the chunk loop: the header, the erasure coder, the number of chunks
LoadHeader ==
    /\ lpc = "load"
    /\ IF meta.hostKeys < 0
       THEN \* make([]siafile.HostPublicKey, hostKeys)
            /\ lpc' = "panic"
            /\ UNCHANGED <<sf, chunks>>
       ELSE IF InitErasureCoderErr(meta.ErasureCodeType) # NoErr
       THEN /\ lpc' = "error"
            /\ UNCHANGED <<sf, chunks>>
       ELSE IF meta.PieceSize * meta.DataPieces = 0
       THEN \* the division by chunkSize
            /\ lpc' = "panic"
            /\ UNCHANGED <<sf, chunks>>
       ELSE /\ sf' = [FileSize |-> meta.FileSize, PieceSize |-> meta.PieceSize,
                      EncoderType |-> meta.ErasureCodeType, DataPieces |-> meta.DataPieces,
                      ParityPieces |-> meta.ParityPieces, MasterKey |-> meta.MasterKey,
                      Chunks |-> <<>>]
            /\ chunks' = NumChunksFor(meta.FileSize, meta.PieceSize * meta.DataPieces)
            /\ lpc' = "chunks"
    /\ UNCHANGED <<meta, loadIdx, chunkBuf, fileEnd, readLen, jsonOut, decodedSf>>
    /\ UNCHANGED <<recoverVars, healthVars, scanVars>>

\* for i := 0; i < int(chunks); i++: one chunk record is read and decoded
LoadChunk ==
    /\ lpc = "chunks"
    /\ loadIdx < chunks
    /\ \E n \in ReadLens : \E data \in RecordBytes(n) :
         LET buf == ReadFull(chunkBuf, data)
             parsed == ParsePieces(buf, 0, [p \in 0..(sf.DataPieces + sf.ParityPieces - 1) |-> <<>>])
         IN  /\ readLen' = n
             /\ fileEnd' = (n < RecordLen)
             /\ chunkBuf' = buf
             /\ IF ReadFails(ReadErr(n)) \/ parsed.Err # NoErr
                THEN /\ lpc' = "error"
                     /\ sf' = NoSiaFile
                     /\ UNCHANGED loadIdx
                ELSE /\ sf' = [sf EXCEPT !.Chunks = Append(@, parsed.Pieces)]
                     /\ loadIdx' = loadIdx + 1
                     /\ UNCHANGED lpc
    /\ UNCHANGED <<meta, chunks, jsonOut, decodedSf>>
    /\ UNCHANGED <<recoverVars, healthVars, scanVars>>

\* return sf, nil: the buffer is gone with the call
LoadReturn ==
    /\ lpc = "chunks"
    /\ loadIdx >= chunks
    /\ lpc' = "ok"
    /\ chunkBuf' = <<>>
    /\ UNCHANGED <<sf, meta, chunks, loadIdx, fileEnd, readLen, jsonOut, decodedSf>>
    /\ UNCHANGED <<recoverVars, healthVars, scanVars>>

\* ------------------------------------------------------------------ the JSON form
\* a JSON document as the tree of its values; a number is its decimal digits
JNull == [t |-> "null"]
JNumber(digits) == [t |-> "number", v |-> digits]
JString(chars) == [t |-> "string", v |-> chars]
JArray(items) == [t |-> "array", v |-> items]
JObject(members) == [t |-> "object", v |-> members]

RECURSIVE Digits(_)
Digits(n) == IF n < 10 THEN <<n>> ELSE Append(Digits(n \div 10), n % 10)

RECURSIVE ParseUint(_)
ParseUint(digits) ==
    IF Len(digits) = 1 THEN digits[1]
    ELSE 10 * ParseUint(SubSeq(digits, 1, Len(digits) - 1)) + digits[Len(digits)]

\* crypto.Hash as JSON: the hex digits of its bytes, here of the last byte
MarshalHash(root) == JString(<<root \div 16, root % 16>>)
UnmarshalHash(x) == 16 * x.v[1] + x.v[2]

\* []byte as JSON: null for nil, else base64, here the two sextets of every byte
MarshalBytes(b) ==
    IF b = <<>> THEN JNull
    ELSE JString([k \in 1..(2 * Len(b)) |->
                     IF k % 2 = 1 THEN b[(k + 1) \div 2] \div 4 ELSE (b[k \div 2] % 4) * 16])
UnmarshalBytes(x) ==
    IF x.t = "null" THEN <<>>
    ELSE [k \in 1..(Len(x.v) \div 2) |-> 4 * x.v[2 * k - 1] + x.v[2 * k] \div 16]

\* []Piece: null for a nil slot
MarshalPiece(p) == JObject([MerkleRoot |-> MarshalHash(p.MerkleRoot), HostKey |-> JString(p.HostKey)])
MarshalSlot(slot) ==
    IF slot = <<>> THEN JNull ELSE JArray([k \in 1..Len(slot) |-> MarshalPiece(slot[k])])
UnmarshalSlot(x) ==
    IF x.t = "null" THEN <<>>
    ELSE [k \in 1..Len(x.v) |->
            [MerkleRoot |-> UnmarshalHash(x.v[k].v.MerkleRoot), HostKey |-> x.v[k].v.HostKey.v]]

\* Chunk{Pieces [][]Piece}: an array with one element for every slot
MarshalPiecesCompact(pieces) ==
    JArray(SelectSeq([k \in 1..Cardinality(DOMAIN pieces) |-> MarshalSlot(pieces[k - 1])],
                     LAMBDA x : x.t # "null"))
MarshalPieces(pieces) ==
    JArray([k \in 1..Cardinality(DOMAIN pieces) |-> MarshalSlot(pieces[k - 1])])
UnmarshalPieces(x) == [p \in 0..(Len(x.v) - 1) |-> UnmarshalSlot(x.v[p + 1])]

\* json.NewEncoder(os.Stdout).Encode(sf)
MarshalSiaFile(f) ==
    JObject([filesize |-> JNumber(Digits(f.FileSize)),
             piecesize |-> JNumber(Digits(f.PieceSize)),
             encodertype |-> JNumber(Digits(f.EncoderType)),
             datapieces |-> JNumber(Digits(f.DataPieces)),
             paritypieces |-> JNumber(Digits(f.ParityPieces)),
             masterkey |-> MarshalBytes(f.MasterKey),
             chunks |-> JArray([k \in 1..Len(f.Chunks) |->
                                  JObject([pieces |-> MarshalPieces(f.Chunks[k])])])])

\* json.NewDecoder(f).Decode(&sf)
UnmarshalSiaFile(x) ==
    [FileSize |-> ParseUint(x.v.filesize.v),
     PieceSize |-> ParseUint(x.v.piecesize.v),
     EncoderType |-> ParseUint(x.v.encodertype.v),
     DataPieces |-> ParseUint(x.v.datapieces.v),
     ParityPieces |-> ParseUint(x.v.paritypieces.v),
     MasterKey |-> UnmarshalBytes(x.v.masterkey),
     Chunks |-> [k \in 1..Len(x.v.chunks.v) |-> UnmarshalPieces(x.v.chunks.v[k].v.pieces)]]

\* extractmeta: the topology that Load returned is written as JSON
Export ==
    /\ lpc = "ok"
    /\ jsonOut' = MarshalSiaFile(sf)
    /\ lpc' = "exported"
    /\ UNCHANGED <<sf, meta, chunks, loadIdx, chunkBuf, fileEnd, readLen, decodedSf>>
    /\ UNCHANGED <<recoverVars, healthVars, scanVars>>

\* the health check reads the JSON document
DecodeMeta ==
    /\ lpc = "exported"
    /\ decodedSf' = UnmarshalSiaFile(jsonOut)
    /\ lpc' = "decoded"
    /\ UNCHANGED <<sf, meta, chunks, loadIdx, chunkBuf, fileEnd, readLen, jsonOut>>
    /\ UNCHANGED <<recoverVars, healthVars, scanVars>>

\* the recover command is not running
NoRecover ==
    /\ hostCap = MaxHosts
    /\ workers = 1
    /\ currentHeight = 0
    /\ contracts = [h \in HostKeys |-> 0]
    /\ contractsFile = contracts
    /\ raceCap = MaxRaces
    /\ RunStart

InitLoad ==
    /\ NoRenter
    /\ NoWallet
    /\ NoMeta
    /\ lpc = "load"
    /\ meta \in Metas
    /\ sf = NoSiaFile
    /\ chunks = 0
    /\ loadIdx = 0
    /\ chunkBuf = ZeroBuf
    /\ fileEnd = FALSE
    /\ readLen = -1
    /\ jsonOut = <<>>
    /\ decodedSf = <<>>
    /\ NoRecover
    /\ NoHealth
    /\ NoScan

NextLoad ==
    \/ LoadHeader
    \/ LoadChunk
    \/ LoadReturn
    \/ Export
    \/ DecodeMeta

SpecLoad == InitLoad /\ [][NextLoad]_vars

\* ------------------------------------------------------------------ healthCheckCmd
\* the files of the health check: every slot lists up to MaxRefs sectors, all on
\* host 1 (the check reads the host key of a piece only for a log message)
HealthSlots ==
    UNION {[1..n -> [MerkleRoot : MerkleRoots, HostKey : {1}]] : n \in 0..MaxRefs}
HealthFiles ==
    {[NoSiaFile EXCEPT !.FileSize = 1, !.PieceSize = 1, !.EncoderType = 1,
                       !.DataPieces = d, !.ParityPieces = MaxPieces - d, !.Chunks = cs] :
        d \in 1..MaxPieces,
        cs \in UNION {[1..n -> [0..(MaxPieces - 1) -> HealthSlots]] : n \in 1..MaxChunks}}

\* the merkle roots of a sequence of pieces that are not in seen, each once, in
\* the order of their first appearance
RECURSIVE DistinctRoots(_, _)
DistinctRoots(ps, seen) ==
    IF ps = <<>> THEN <<>>
    ELSE IF Head(ps).MerkleRoot \in seen THEN DistinctRoots(Tail(ps), seen)
    ELSE <<Head(ps).MerkleRoot>> \o DistinctRoots(Tail(ps), seen \cup {Head(ps).MerkleRoot})

\* all pieces of the file, in the order of the loops over chunks, slots and pieces
RECURSIVE SlotsFrom(_, _)
SlotsFrom(pieces, p) ==
    IF p \notin DOMAIN pieces THEN <<>> ELSE pieces[p] \o SlotsFrom(pieces, p + 1)

RECURSIVE FilePieces(_)
FilePieces(cs) ==
    IF cs = <<>> THEN <<>> ELSE SlotsFrom(Head(cs), 0) \o FilePieces(Tail(cs))

\* the orders in which r.Hosts() may list the hosts (the order of a map)
Orders(S) == {o \in [1..Cardinality(S) -> S] : \A a, b \in DOMAIN o : a # b => o[a] # o[b]}

\* the health check up to the loop over hosts and sectors
HealthStart ==
    /\ hpc = "start"
    /\ \E o \in Orders(Hosts) : availableHosts' = o
    /\ IF Hosts = {}
       THEN /\ hpc' = "fatal"
            /\ UNCHANGED <<sectors, queried, sectorAvailability>>
       ELSE /\ sectors' = DistinctRoots(FilePieces(sf.Chunks), {})
            /\ queried' = [h \in HostKeys, r \in MerkleRoots |-> 0]
            /\ sectorAvailability' = [r \in MerkleRoots |-> <<>>]
            /\ hpc' = "check"
    /\ UNCHANGED <<sf, hostPos, sectorPos, held, health>>
    /\ UNCHANGED <<recoverVars, loadVars, scanVars>>

\* checkSector: (available, err) as the host and the network make them
CheckResults == {[available |-> TRUE, err |-> NoErr], [available |-> FALSE, err |-> NoErr],
                 [available |-> FALSE, err |-> ErrOther]}

\* one turn of the inner loop: checkSector(r, host, sector) and its bookkeeping
CheckSector ==
    /\ hpc = "check"
    /\ hostPos <= Len(availableHosts)
    /\ sectorPos <= Len(sectors)
    /\ LET host == availableHosts[hostPos]
           sector == sectors[sectorPos]
       IN  /\ queried' = [queried EXCEPT ![host, sector] = Inc2(@)]
           /\ \E res \in CheckResults :
                 /\ held' = IF res.err = NoErr /\ res.available
                            THEN held \cup {<<host, sector>>} ELSE held
                 /\ sectorAvailability' =
                       IF res.err = NoErr /\ ~res.available
                       THEN sectorAvailability
                       ELSE [sectorAvailability EXCEPT ![sector] = Append(@, host)]
    /\ IF sectorPos = Len(sectors)
       THEN hostPos' = hostPos + 1 /\ sectorPos' = 1
       ELSE sectorPos' = sectorPos + 1 /\ UNCHANGED hostPos
    /\ UNCHANGED <<sf, hpc, availableHosts, sectors, health>>
    /\ UNCHANGED <<recoverVars, loadVars, scanVars>>

\* the loop over the sectors of a piece: available stays true unless a sector has
\* no host recorded
RECURSIVE PieceAvailable(_)
PieceAvailable(pieces) ==
    IF pieces = <<>> THEN TRUE
    ELSE IF Len(sectorAvailability[Head(pieces).MerkleRoot]) = 0 THEN FALSE
    ELSE PieceAvailable(Tail(pieces))

\* chunkHealth.AvailablePieces after the slots from p on
RECURSIVE AvailablePieces(_, _)
AvailablePieces(pieces, p) ==
    IF p \notin DOMAIN pieces THEN 0
    ELSE (IF PieceAvailable(pieces[p]) THEN 1 ELSE 0) + AvailablePieces(pieces, p + 1)

\* the loop over the chunks: the chunk reports and the unhealthy flag
RECURSIVE ChunkReports(_)
ChunkReports(cs) ==
    IF cs = <<>> THEN <<>>
    ELSE <<[MinPieces |-> sf.DataPieces, AvailablePieces |-> AvailablePieces(Head(cs), 0)]>>
         \o ChunkReports(Tail(cs))

RECURSIVE Unhealthy(_)
Unhealthy(reports) ==
    IF reports = <<>> THEN FALSE
    ELSE Head(reports).AvailablePieces < Head(reports).MinPieces \/ Unhealthy(Tail(reports))

\* after the loops: the report is built and written
BuildReport ==
    /\ hpc = "check"
    /\ hostPos > Len(availableHosts) \/ sectors = <<>>
    /\ health' = [Chunks |-> ChunkReports(sf.Chunks),
                  Recoverable |-> ~Unhealthy(ChunkReports(sf.Chunks))]
    /\ hpc' = "done"
    /\ UNCHANGED <<sf, availableHosts, sectors, hostPos, sectorPos, queried, held,
                   sectorAvailability>>
    /\ UNCHANGED <<recoverVars, loadVars, scanVars>>

InitHealth ==
    /\ NoRenter
    /\ NoWallet
    /\ NoMeta
    /\ hostCap = MaxHosts
    /\ hpc = "start"
    /\ sf \in HealthFiles
    /\ availableHosts = <<>>
    /\ sectors = <<>>
    /\ hostPos = 1
    /\ sectorPos = 1
    /\ queried = <<>>
    /\ held = {}
    /\ sectorAvailability = <<>>
    /\ health = <<>>
    /\ workers = 1
    /\ currentHeight = 0
    /\ contracts \in [HostKeys -> {0, MaxHeight + 1}]
    /\ contractsFile = load(contracts, currentHeight)
    /\ raceCap = MaxRaces
    /\ RunStart
    /\ NoLoad
    /\ NoScan

NextHealth ==
    \/ HealthStart
    \/ CheckSector
    \/ BuildReport

SpecHealth == InitHealth /\ [][NextHealth]_vars

\* ------------------------------------------------------------------ skyscan
\* the input files: up to MaxInput bytes, every byte 0 or 1
MaxInput == 3
Inputs == UNION {[1..n -> 0..1] : n \in 0..MaxInput}

\* h.Reset(); h.Write(chunk); hex.EncodeToString(h.Sum(nil)): a digest of the
\* bytes and of their order, ChecksumMod values
ChecksumMod == 5
RECURSIVE Checksum(_)
Checksum(chunk) ==
    IF chunk = <<>> THEN 1
    ELSE (3 * Checksum(SubSeq(chunk, 1, Len(chunk) - 1)) + chunk[Len(chunk)] + 1) % ChecksumMod

\* the flags: -checksum (-1: not given) and -len (0: not given)
Checksums == -1..(ChecksumMod - 1)
Lengths == 0..(MaxInput + 1)

\* input[start:end]
Window(start) == SubSeq(input, start + 1, start + fileLength)

\* n := uint64(len(input)) - *fileLength, the bound of the loop: i < n
ScanEnd(len, length) == len - length

\* the checks of the flags and of the size of the input file
ScanStart ==
    /\ spc = "start"
    /\ IF fileChecksum = -1 \/ fileLength = 0 \/ Len(input) < fileLength
       THEN spc' = "fatal"
       ELSE spc' = "scan"
    /\ UNCHANGED <<fileChecksum, fileLength, input, scanIdx, scanOut>>
    /\ UNCHANGED <<sf, recoverVars, loadVars, healthVars>>

\* one turn of the loop: the window at i is hashed and compared
ScanWindow ==
    /\ spc = "scan"
    /\ scanIdx < ScanEnd(Len(input), fileLength)
    /\ IF fileChecksum = Checksum(Window(scanIdx))
       THEN /\ scanOut' = Window(scanIdx)
            /\ spc' = "found"
            /\ UNCHANGED scanIdx
       ELSE /\ scanIdx' = scanIdx + 1
            /\ UNCHANGED <<spc, scanOut>>
    /\ UNCHANGED <<fileChecksum, fileLength, input>>
    /\ UNCHANGED <<sf, recoverVars, loadVars, healthVars>>

\* the loop ends: "no matching file found"
ScanNone ==
    /\ spc = "scan"
    /\ scanIdx >= ScanEnd(Len(input), fileLength)
    /\ spc' = "none"
    /\ UNCHANGED <<fileChecksum, fileLength, input, scanIdx, scanOut>>
    /\ UNCHANGED <<sf, recoverVars, loadVars, healthVars>>

InitScan ==
    /\ NoRenter
    /\ NoWallet
    /\ NoMeta
    /\ spc = "start"
    /\ fileChecksum \in Checksums
    /\ fileLength \in Lengths
    /\ input \in Inputs
    /\ scanIdx = 0
    /\ scanOut = <<>>
    /\ sf = NoSiaFile
    /\ NoRecover
    /\ NoLoad
    /\ NoHealth

NextScan ==
    \/ ScanStart
    \/ ScanWindow
    \/ ScanNone

SpecScan == InitScan /\ [][NextScan]_vars

\* ------------------------------------------------------------------ the wallets
\* the wallet: unspent outputs of the address, their largest value, the largest
\* amount asked for, and the callers that fund at the same time
MaxUtxos == 3
MaxValue == 2
MaxAmount == 4
MaxCalls == 2
UtxoIDs == 1..MaxUtxos

\* SpendableUTXOs: of the outputs, in the order given, those not marked used,
\* not spent by an unconfirmed transaction and mature
SpendableUTXOs(order) ==
    SelectSeq(order, LAMBDA id : /\ id \notin wl.used
                                 /\ ~wl.utxo[id].spent
                                 /\ wl.utxo[id].mature)

\* sort.Slice of Redistribute: the values do not rise along the list
Descending(list) ==
    \A i \in 1..(Len(list) - 1) : wl.utxo[list[i]].value >= wl.utxo[list[i + 1]].value

\* the loop of FundTransaction and of Redistribute from entry i of the list on:
\* an output marked used is skipped, the others are taken until the sum
\* reaches the amount
RECURSIVE Fill(_, _, _, _, _)
Fill(list, i, ids, sum, amount) ==
    IF i > Len(list) THEN [ids |-> ids, sum |-> sum]
    ELSE IF list[i] \in wl.used THEN Fill(list, i + 1, ids, sum, amount)
    ELSE IF sum + wl.utxo[list[i]].value >= amount
         THEN [ids |-> ids \cup {list[i]}, sum |-> sum + wl.utxo[list[i]].value]
         ELSE Fill(list, i + 1, ids \cup {list[i]}, sum + wl.utxo[list[i]].value, amount)

NoCall == [op |-> "", amount |-> 0, list |-> <<>>]

\* FundTransaction and Redistribute of the wallet package, their first part: a
\* zero amount ends FundTransaction at once; otherwise SpendableUTXOs makes the
\* list, under the lock it gives up on its return, and Redistribute sorts it
WalletList(c) ==
    /\ wl # <<>>
    /\ wl.kind = "wallet"
    /\ wl.call[c].op = ""
    /\ wl.held[c] = {}
    /\ \E op \in {"FundTransaction", "Redistribute"}, amount \in 0..MaxAmount,
          order \in Orders(UtxoIDs) :
          IF op = "FundTransaction" /\ amount = 0
          THEN wl' = [wl EXCEPT !.last = [op |-> op, c |-> c, err |-> NoErr, ids |-> {}]]
          ELSE /\ op = "Redistribute" => Descending(SpendableUTXOs(order))
               /\ wl' = [wl EXCEPT !.call[c] = [op |-> op, amount |-> amount,
                                                list |-> SpendableUTXOs(order)],
                                   !.last = [op |-> "SpendableUTXOs", c |-> c, err |-> NoErr,
                                             ids |-> {}]]
    /\ UNCHANGED <<restVars, contracts, rn, mb>>

\* the second part, under the lock: the outputs are chosen; too small a sum is
\* an error, and otherwise the chosen outputs are marked used and handed out
Funded(c) ==
    LET r == Fill(wl.call[c].list, 1, {}, 0, wl.call[c].amount)
    IN  IF r.sum < wl.call[c].amount
        THEN [wl EXCEPT !.call[c] = NoCall,
                        !.last = [op |-> wl.call[c].op, c |-> c, err |-> "not enough funds",
                                  ids |-> {}]]
        ELSE [wl EXCEPT !.call[c] = NoCall, !.used = wl.used \cup r.ids, !.held[c] = r.ids,
                        !.last = [op |-> wl.call[c].op, c |-> c, err |-> NoErr,
                                  ids |-> r.ids]]

FundTransaction(c) ==
    /\ wl # <<>>
    /\ wl.call[c].op = "FundTransaction"
    /\ wl' = Funded(c)
    /\ UNCHANGED <<restVars, contracts, rn, mb>>

Redistribute(c) ==
    /\ wl # <<>>
    /\ wl.call[c].op = "Redistribute"
    /\ wl' = Funded(c)
    /\ UNCHANGED <<restVars, contracts, rn, mb>>

\* the loop of healthcheck's FundTransaction from entry i on: an output that is
\* used, spent by an unconfirmed transaction or immature is skipped, and each
\* of the others is marked used as it is taken
RECURSIVE HealthFill(_, _, _, _, _, _)
HealthFill(order, i, used, ids, sum, amount) ==
    IF i > Len(order) THEN [used |-> used, ids |-> ids, sum |-> sum]
    ELSE IF order[i] \in used \/ wl.utxo[order[i]].spent \/ ~wl.utxo[order[i]].mature
         THEN HealthFill(order, i + 1, used, ids, sum, amount)
    ELSE IF sum + wl.utxo[order[i]].value >= amount
         THEN [used |-> used \cup {order[i]}, ids |-> ids \cup {order[i]},
               sum |-> sum + wl.utxo[order[i]].value]
         ELSE HealthFill(order, i + 1, used \cup {order[i]}, ids \cup {order[i]},
                         sum + wl.utxo[order[i]].value, amount)

\* FundTransaction of healthcheck's wallet, one locked stretch: on too small a
\* sum it returns the error and no release function
HealthFundTransaction(c) ==
    /\ wl # <<>>
    /\ wl.kind = "healthcheck"
    /\ wl.held[c] = {}
    /\ \E amount \in 0..MaxAmount, order \in Orders(UtxoIDs) :
          IF amount = 0
          THEN wl' = [wl EXCEPT !.last = [op |-> "FundTransaction", c |-> c, err |-> NoErr,
                                          ids |-> {}]]
          ELSE LET r == HealthFill(order, 1, wl.used, {}, 0, amount)
               IN  IF r.sum < amount
                   THEN wl' = [wl EXCEPT !.used = r.used,
                                         !.last = [op |-> "FundTransaction", c |-> c,
                                                   err |-> "not enough funds", ids |-> {}]]
                   ELSE wl' = [wl EXCEPT !.used = r.used, !.held[c] = r.ids,
                                         !.last = [op |-> "FundTransaction", c |-> c,
                                                   err |-> NoErr, ids |-> r.ids]]
    /\ UNCHANGED <<restVars, contracts, rn, mb>>

\* the release function a funding returned: its outputs are deleted from used
Release(c) ==
    /\ wl # <<>>
    /\ wl.held[c] # {}
    /\ wl' = [wl EXCEPT !.used = wl.used \ wl.held[c], !.held[c] = {},
                        !.last = [op |-> "release", c |-> c, err |-> NoErr,
                                  ids |-> wl.held[c]]]
    /\ UNCHANGED <<restVars, contracts, rn, mb>>

InitWallet ==
    /\ NoRenter
    /\ NoMeta
    /\ sf = NoSiaFile
    /\ NoRecover
    /\ NoLoad
    /\ NoHealth
    /\ NoScan
    /\ \E kind \in {"wallet", "healthcheck"},
          utxo \in [UtxoIDs -> [value : 1..MaxValue, spent : BOOLEAN, mature : BOOLEAN]] :
          wl = [kind |-> kind, utxo |-> utxo, used |-> {},
                held |-> [c \in 1..MaxCalls |-> {}], call |-> [c \in 1..MaxCalls |-> NoCall],
                last |-> [op |-> "", c |-> 0, err |-> NoErr, ids |-> {}]]

NextWallet ==
    \/ \E c \in 1..MaxCalls : WalletList(c)
    \/ \E c \in 1..MaxCalls : FundTransaction(c)
    \/ \E c \in 1..MaxCalls : Redistribute(c)
    \/ \E c \in 1..MaxCalls : HealthFundTransaction(c)
    \/ \E c \in 1..MaxCalls : Release(c)

SpecWallet == InitWallet /\ [][NextWallet]_vars

\* ------------------------------------------------------------------ metabuild
\* the skykeys of the database that are followed
MaxKeys == 2

\* a skykey of the database: whether its ID is the key ID of the layout, and what
\* MatchesSkyfileEncryptionID says of it for the layout's identifier and nonce
Skykeys == [hasID : BOOLEAN, matches : {"error", "no", "yes"}]

\* skykeyDB.KeyByID: the key with that ID and no error, or ErrNoSkykeysWithThatID
KeyByID(keys) ==
    IF \E i \in 1..Len(keys) : keys[i].hasID
    THEN [key |-> CHOOSE i \in 1..Len(keys) : keys[i].hasID, err |-> NoErr]
    ELSE [key |-> 0, err |-> "no Skykeys with that ID"]

\* findMatchingSkyKey from key i on: a key whose match fails is passed over, the
\* first key that matches is returned, and none is "not found"
RECURSIVE findMatchingSkyKey(_, _)
findMatchingSkyKey(keys, i) ==
    IF i > Len(keys) THEN [key |-> 0, err |-> "not found"]
    ELSE IF keys[i].matches = "yes" THEN [key |-> i, err |-> NoErr]
    ELSE findMatchingSkyKey(keys, i + 1)

\* parseMetadata: the base sector is read; an encrypted one is decrypted first
ReadBaseSector ==
    /\ mb # <<>>
    /\ mb.pc = "start"
    /\ mb' = [mb EXCEPT !.pc = IF mb.encrypted THEN "skykey" ELSE "parse"]
    /\ UNCHANGED <<restVars, contracts, rn, wl>>

\* parseMetadata: KeyByID, then err.Error() is called on the error it returned,
\* which is nil when the key was found; an error that holds the text of
\* ErrNoSkykeysWithThatID leads to findMatchingSkyKey; an error that is left
\* ends the call
GetSkykey ==
    /\ mb # <<>>
    /\ mb.pc = "skykey"
    /\ LET byID == KeyByID(mb.skykeys)
           found == IF byID.err = "no Skykeys with that ID"
                    THEN findMatchingSkyKey(mb.skykeys, 1) ELSE byID
       IN  IF byID.err = NoErr
           THEN mb' = [mb EXCEPT !.pc = "panic", !.byID = byID.err]
           ELSE mb' = [mb EXCEPT !.pc = IF found.err # NoErr THEN "error" ELSE "derive",
                                 !.byID = byID.err,
                                 !.fellBack = (byID.err = "no Skykeys with that ID"),
                                 !.masterSkykey = found.key,
                                 !.err = found.err]
    /\ UNCHANGED <<restVars, contracts, rn, wl>>

\* parseMetadata: the file key, the base sector key and the cipher key are
\* derived and the base sector is decrypted; the first step that fails ends the
\* call with its error
DecryptBaseSector ==
    /\ mb # <<>>
    /\ mb.pc = "derive"
    /\ IF mb.fails # "none"
       THEN mb' = [mb EXCEPT !.pc = "error", !.err = mb.fails]
       ELSE mb' = [mb EXCEPT !.pc = "parse", !.decrypted = TRUE]
    /\ UNCHANGED <<restVars, contracts, rn, wl>>

\* parseMetadata, its end: the metadata is parsed from the base sector
ParseSkyfileMetadata ==
    /\ mb # <<>>
    /\ mb.pc = "parse"
    /\ IF mb.parses THEN mb' = [mb EXCEPT !.pc = "done"]
       ELSE mb' = [mb EXCEPT !.pc = "error", !.err = "failed to parse base sector"]
    /\ UNCHANGED <<restVars, contracts, rn, wl>>

InitMeta ==
    /\ NoRenter
    /\ NoWallet
    /\ sf = NoSiaFile
    /\ NoRecover
    /\ NoLoad
    /\ NoHealth
    /\ NoScan
    /\ \E encrypted \in BOOLEAN, parses \in BOOLEAN, n \in 0..MaxKeys,
          fails \in {"none", "SubkeyWithNonce", "DeriveSubkey", "CipherKey",
                     "DecryptBytesInPlace"} :
          \E keys \in [1..n -> Skykeys] :
             /\ Cardinality({i \in 1..n : keys[i].hasID}) <= 1
             /\ mb = [pc |-> "start", encrypted |-> encrypted, skykeys |-> keys,
                      fails |-> fails, parses |-> parses, byID |-> "", fellBack |-> FALSE,
                      masterSkykey |-> 0, decrypted |-> FALSE, err |-> NoErr]

NextMeta ==
    \/ ReadBaseSector
    \/ GetSkykey
    \/ DecryptBaseSector
    \/ ParseSkyfileMetadata

SpecMeta == InitMeta /\ [][NextMeta]_vars

\* ------------------------------------------------------------------ properties
\* the recoverSector call that recoverCmd waits in
Active == {i \in DOMAIN races : ~races[i].returned}

\* the results of a race that the collector has yet to receive
Pending(rc) == {rc.resultsChan[k] : k \in DOMAIN rc.resultsChan} \cup rc.res

\* the pieces present in the array handed to ec.Recover
Present == {i \in DOMAIN recoveredPieces : recoveredPieces[i] # 0}

RECURSIVE Written(_)
Written(w) == IF w = <<>> THEN 0 ELSE Head(w).n + Written(Tail(w))

\* C1: sector bytes are accepted only with the requested merkle root and the
\* length of a sector: every entry of the cache is the sector of its key, every
\* sector appended to a piece's data is a sector of the piece, and a result of
\* downloadSector in a race carries either an error and no bytes or the sector
\* that the race is about
C1_SectorsVerified ==
    /\ \A r \in MerkleRoots :
          recoveredSectors[r] # Nil => recoveredSectors[r] = SectorData(r)
    /\ \A j \in DOMAIN recoveredData :
          /\ recoveredData[j].len = SectorSize
          /\ \E k \in DOMAIN piece : piece[k] = SectorRoot(recoveredData[j])
    /\ \A i \in Active : \A r \in Pending(races[i]) :
          IF r.Err = NoErr THEN r.Data = SectorData(races[i].sector) ELSE r.Data = Nil

\* a race has delivered a sector, which the cache does not hold, to a piece whose
\* other sector came from the cache
C1_Witness ==
    /\ pc = "slowSector"
    /\ Len(recoveredData) = 2
    /\ \E r \in MerkleRoots : recoveredSectors[r] # Nil
    /\ \E r \in MerkleRoots : r \in fetched /\ recoveredSectors[r] = Nil

\* C2: when the run ends in failure because fewer than dataPieces pieces of a
\* chunk were retrieved, no output is left behind, in particular not the bytes of
\* the chunks before that chunk
C2_NoPartialOutput ==
    (pc = "fatal" /\ recovered < MinPieces) => outputFile.writes = <<>>

\* C3: a chunk of which dataPieces piece slots have been retrieved in full and
\* decrypted is emitted: the run fails only with fewer than dataPieces pieces
C3_HeldChunksAreEmitted ==
    (pc = "fatal" /\ outputFile.created) => Cardinality(Present) < MinPieces

\* C4: the chunks are written once each in increasing chunk index, every chunk
\* with pieceSize * minPieces bytes and the last one with the bytes that remain,
\* and a run that succeeds has written fileSize bytes in all
C4_ChunksInOrder ==
    LET full == sf.PieceSize * MinPieces
        w == outputFile.writes
    IN  /\ Len(w) <= sf.NumChunks
        /\ \A k \in DOMAIN w :
              /\ w[k].chunk = k - 1
              /\ w[k].n = IF k < sf.NumChunks THEN full
                          ELSE sf.FileSize - (sf.NumChunks - 1) * full
        /\ pc = "done" => (Len(w) = sf.NumChunks /\ Written(w) = sf.FileSize)

\* a run has succeeded whose last chunk was cut to the remaining bytes
C4_Witness ==
    /\ pc = "done"
    /\ Len(outputFile.writes) = MaxChunks
    /\ outputFile.writes[MaxChunks].n < outputFile.writes[1].n

\* C5: recoverCmd issues no network call for a sector that has been downloaded
\* before
C5_OneFetchPerHash == ~hist.refetch

\* C6: no downloadSector or recoverSector call is issued, by recoverCmd or by a
\* worker of a race, for a merkle root whose sector the cache holds at that moment
C6_CacheBeforeCall == ~hist.cachedCall

\* C7: no session is opened to a host that has answered "no record of that
\* contract" to an earlier read of the run
C7_NoSessionAfterNoRecord == ~hist.redial

\* C8: a piece of which at least one sector reference has been fetched and
\* verified counts as recovered when the scan of its references ends, in the fast
\* path and in the slow path
C8_OneSectorRecoversPiece ==
    [][(pc \in {"sector", "slowSector"} /\ sectorsRecovered >= 1 /\ pieceLen' = 0)
          => recovered' = recovered + 1]_vars

\* C9: piece slots are scanned, recoverSector is called and a race is waited for
\* only while fewer than dataPieces pieces of the chunk have been recovered: the
\* fast path stops at the dataPieces-th piece and the slow path is entered only
\* with fewer
C9_SlowPathOnlyWhenShort ==
    /\ pc \in {"piece", "sector", "slowPiece", "slowSector", "race"} => recovered < MinPieces
    /\ Active # {} => pc = "race"

\* the fast path has stopped with dataPieces pieces, all from the first slots,
\* before the last slot of the chunk
C9_Witness ==
    /\ pc = "recover"
    /\ recovered = MinPieces
    /\ pieceIdx < NumPieces - 1
    /\ missingPieces = <<>>
    /\ races = <<>>

\* C10: when recoverSector is about to report failure (the results channel is
\* closed and drained), every host of the availability set that the race's
\* dispatcher read at its start has been asked for the sector exactly once and
\* none has delivered verified data
C10_FailureAfterAllHosts ==
    \A i \in Active :
        (races[i].resultsChan = <<>> /\ races[i].resultsClosed)
           => /\ \A h \in races[i].availableHosts : races[i].asked[h] = 1
              /\ \A h \in HostKeys \ races[i].availableHosts : races[i].asked[h] = 0
              /\ races[i].verified = {}

\* a race over every host of the bound is about to report failure
C10_Witness ==
    \E i \in Active :
        /\ races[i].resultsChan = <<>>
        /\ races[i].resultsClosed
        /\ races[i].availableHosts = HostKeys

\* C11: a step of a race that adds bytes to the piece's data adds the data of
\* the result the collector receives, which is a success, and recoverSector
\* returns with it: no result behind it is received, and no step of a race
\* touches the cache
C11_FirstSuccessWins ==
    [][pc = "race" =>
          /\ recoveredSectors' = recoveredSectors
          /\ recoveredData' # recoveredData =>
                LET rc == races[Len(races)]
                IN  /\ rc.resultsChan # <<>>
                    /\ Head(rc.resultsChan).Err = NoErr
                    /\ recoveredData' = Append(recoveredData, Head(rc.resultsChan).Data)
                    /\ {i \in DOMAIN races' : ~races'[i].returned} = {}
                    /\ pc' = "slowSector"]_vars

\* a result has arrived at the results channel of a race after the return
C11_Witness ==
    /\ pc = "slowSector"
    /\ Len(recoveredData) = 1
    /\ \E i \in DOMAIN races : races[i].returned /\ races[i].resultsChan # <<>>

C20_RecoverWithEnoughPieces ==
    pc = "slowRecover" => Cardinality(Present) >= MinPieces

\* C12: at no time during a recover run are more than `workers` sector downloads
\* in flight, counting the downloads of the workers that a returned recoverSector
\* call has left running together with those of the next call
RECURSIVE InFlight(_)
InFlight(rs) == IF rs = <<>> THEN 0 ELSE Cardinality(Head(rs).dl) + InFlight(Tail(rs))

C12_DownloadsWithinWorkers == InFlight(races) <= workers

Declared(buf) == SubSeq(buf, 2, 1 + (IF buf[1] < MaxEntries THEN buf[1] ELSE MaxEntries))

\* C15: Load fails with an error and returns no topology when the erasure-coding
\* type is not 1 or 2, when a read of a chunk record ends before the whole record
\* (also for the last record), and when a declared piece entry has a pieceIndex or
\* a hostIndex that is out of range
C15_MalformedDescriptorFails ==
    /\ (lpc # "load" /\ meta.ErasureCodeType \notin {1, 2}) => lpc = "error"
    /\ readLen \in 0..(RecordLen - 1) => lpc = "error"
    /\ (readLen >= 0 /\ chunkBuf # <<>>
          /\ \E k \in DOMAIN Declared(chunkBuf) :
                \/ Declared(chunkBuf)[k].pieceIndex >= meta.DataPieces + meta.ParityPieces
                \/ Declared(chunkBuf)[k].hostIndex >= meta.hostKeys)
       => lpc = "error"
    /\ lpc = "error" => sf = NoSiaFile

\* fileSize / chunkSize, rounded up
CeilDiv(a, b) == (a + b - 1) \div b

\* the sector references among the entries that name slot p, in record order
SlotOf(entries, p) ==
    LET mine == SelectSeq(entries, LAMBDA e : e.pieceIndex = p)
    IN  [k \in 1..Len(mine) |-> [MerkleRoot |-> mine[k].MerkleRoot, HostKey |-> mine[k].hostIndex + 1]]

\* every chunk has dataPieces + parityPieces slots, and the chunk decoded last
\* holds every reference of its record in the slot of its pieceIndex, in record
\* order, with the host key of its hostIndex
ChunksWellFormed ==
    /\ lpc \in {"chunks", "ok"} =>
          \A c \in DOMAIN sf.Chunks :
              DOMAIN sf.Chunks[c] = 0..(meta.DataPieces + meta.ParityPieces - 1)
    /\ (lpc = "chunks" /\ loadIdx >= 1) =>
          \A p \in 0..(meta.DataPieces + meta.ParityPieces - 1) :
              sf.Chunks[loadIdx][p] = SlotOf(Declared(chunkBuf), p)

\* C16 (as stated): a topology that Load returns has fileSize / (pieceSize *
\* minPieces) chunks, rounded up, and well-formed chunks
C16_ChunkCountRoundedUp ==
    /\ lpc = "ok" => Len(sf.Chunks) = CeilDiv(meta.FileSize, meta.PieceSize * meta.DataPieces)
    /\ ChunksWellFormed

\* C16 (amended): a topology that Load returns has fileSize / (pieceSize *
\* minPieces) chunks, rounded up, and one chunk when fileSize is 0; every chunk has
\* dataPieces + parityPieces slots, every reference in the slot of its pieceIndex,
\* in record order, with the host key of its hostIndex
C16_TopologyShape ==
    /\ lpc = "ok" =>
          Len(sf.Chunks) = IF meta.FileSize = 0 THEN 1
                           ELSE CeilDiv(meta.FileSize, meta.PieceSize * meta.DataPieces)
    /\ ChunksWellFormed

C16_Witness ==
    /\ lpc = "chunks"
    /\ loadIdx = 2
    /\ \E p \in DOMAIN sf.Chunks[2] :
          /\ Len(sf.Chunks[2][p]) = 2
          /\ sf.Chunks[2][p][1] # sf.Chunks[2][p][2]

Available(pieces) ==
    {p \in DOMAIN pieces :
        \A k \in DOMAIN pieces[p] : \E h \in HostKeys : <<h, pieces[p][k].MerkleRoot>> \in held}

\* the merkle roots that the file lists
FileRoots == {FilePieces(sf.Chunks)[k].MerkleRoot : k \in DOMAIN FilePieces(sf.Chunks)}

\* C18: the health check makes one checkSector call for every available host and
\* every distinct merkle root of the file and none else; the report has for every
\* chunk the number of its available pieces, and recoverable is true exactly when
\* every chunk has at least minPieces (= dataPieces) available pieces
C18_HealthReport ==
    /\ hpc \in {"check", "done"} =>
          \A h \in HostKeys, r \in MerkleRoots :
              /\ queried[h, r] <= 1
              /\ queried[h, r] = 1 => h \in Hosts /\ r \in FileRoots
              /\ (hpc = "done" /\ h \in Hosts /\ r \in FileRoots) => queried[h, r] = 1
    /\ hpc = "done" =>
          /\ Len(health.Chunks) = Len(sf.Chunks)
          /\ \A c \in DOMAIN sf.Chunks :
                /\ health.Chunks[c].AvailablePieces = Cardinality(Available(sf.Chunks[c]))
                /\ health.Chunks[c].MinPieces = sf.DataPieces
          /\ health.Recoverable <=>
                \A c \in DOMAIN sf.Chunks : health.Chunks[c].AvailablePieces >= sf.DataPieces

\* the starts of the windows of the input whose checksum is the given one
Matches ==
    {start \in 0..(Len(input) - fileLength) : Checksum(Window(start)) = fileChecksum}

\* C19: skyscan reports no match only when no window of -len bytes, at any start
\* from 0 up to and including len(input) - len, has the given checksum; when it
\* finds a match it writes the matching window of the lowest start
C19_FindsEveryWindow ==
    /\ spc = "none" => Matches = {}
    /\ spc = "found" =>
          /\ Matches # {}
          /\ \E start \in Matches :
                /\ \A other \in Matches : start <= other
                /\ scanOut = Window(start)

\* C21: once the context of a recoverSector call is cancelled, no worker of the
\* call starts a download and the dispatcher sends no further work item
C21_NoWorkAfterCancel ==
    [][\A i \in DOMAIN races :
          (races[i].cancelled /\ i \in DOMAIN races') =>
              /\ races'[i].dl \subseteq races[i].dl
              /\ Len(races'[i].workChan) <= Len(races[i].workChan)]_vars

\* C27: a host that the health report lists for a sector is a host whose
\* checkSector call for that sector returned available = true and no error
C27_ListedOnlyIfAvailable ==
    hpc = "done" =>
        \A c \in DOMAIN sf.Chunks : \A p \in DOMAIN sf.Chunks[c] :
            \A k \in DOMAIN sf.Chunks[c][p] :
                (\A j \in 1..k : Len(sectorAvailability[sf.Chunks[c][p][j].MerkleRoot]) > 0) =>
                    \A n \in DOMAIN sectorAvailability[sf.Chunks[c][p][k].MerkleRoot] :
                        <<sectorAvailability[sf.Chunks[c][p][k].MerkleRoot][n],
                          sf.Chunks[c][p][k].MerkleRoot>> \in held

\* C28: the health report counts no slot without sector references among the
\* available pieces, and a chunk all of whose slots are empty has 0 available
\* pieces and makes the file not recoverable
C28_EmptySlotNotCounted ==
    hpc = "done" =>
        \A c \in DOMAIN sf.Chunks :
            /\ health.Chunks[c].AvailablePieces <=
                   Cardinality({p \in DOMAIN sf.Chunks[c] : sf.Chunks[c][p] # <<>>})
            /\ (\A p \in DOMAIN sf.Chunks[c] : sf.Chunks[c][p] = <<>>) =>
                   /\ health.Chunks[c].AvailablePieces = 0
                   /\ ~health.Recoverable

\* C29: while a chunk is worked on, the counter of recovered pieces is the number
\* of pieces present in the array handed to ec.Recover, so that a piece whose
\* decryption failed is not counted
C29_CounterMatchesPieces ==
    pc \in {"piece", "sector", "recover", "slowPiece", "slowSector", "race", "slowRecover"} =>
        recovered = Cardinality(Present)

\* C30: at every height Hosts() lists exactly the hosts for which HostContract
\* succeeds, that is the hosts with a contract whose ExpirationHeight is above the
\* current height; NewSession dials a host only when HostContract succeeds for it
\* and fails with ErrNoContract, the host not contacted, for every other host
C30_HostsAreContractHosts ==
    /\ Hosts = {h \in HostKeys : HostContractOK(h)}
    /\ \A h \in HostKeys : HostContractOK(h) <=> contracts[h] > currentHeight
    /\ \A h \in HostKeys, s \in MerkleRoots : \A rd \in SessionReads(h, s) :
          /\ rd.dialled <=> HostContractOK(h)
          /\ ~HostContractOK(h) => rd.err = ErrNoContract

\* the fast path has asked for a sector and got none while a contract has
\* reached its ExpirationHeight exactly
C30_Witness ==
    /\ pc = "sector"
    /\ sectorIdx > 1
    /\ sectorsRecovered = 0
    /\ \E h \in HostKeys : contracts[h] # 0 /\ contracts[h] = currentHeight /\ h \notin Hosts

C24_CacheAppendOnly ==
    [][/\ \A r \in MerkleRoots :
             recoveredSectors[r] # Nil => recoveredSectors'[r] = recoveredSectors[r]
       /\ \A r \in MerkleRoots :
             recoveredSectors'[r] # recoveredSectors[r] =>
                 /\ pc = "sector"
                 /\ piece' = Append(piece, r)
                 /\ recoveredSectors'[r] = SectorData(r)
       /\ (pc = "sector" /\ sectorIdx' = sectorIdx + 1) => ~hist'.cachedCall]_vars

\* a piece of a later chunk lists one sector twice and has both references
\* recovered: the sector was stored once and then read from the cache
C24_Witness ==
    /\ chunkIdx >= 1
    /\ pc = "sector"
    /\ Len(piece) = 2
    /\ piece[1] = piece[2]
    /\ sectorsRecovered = 2
    /\ recoveredSectors[piece[1]] = SectorData(piece[1])

\* C26: the fast path takes the piece slots of a chunk in increasing index and
\* the sector references of a slot in the order of the descriptor, one reference
\* at a step and the next slot only after the last reference of the slot; a
\* session that the fast path opens for a reference is one to the host that the
\* reference names
C26_FastPathInOrder ==
    [][/\ pc \in {"piece", "sector"} =>
             /\ pieceIdx' \in {pieceIdx, pieceIdx + 1}
             /\ ~(pc' = "sector" /\ pieceIdx' # pieceIdx)
       /\ (pc = "piece" /\ pc' = "sector") => (sectorIdx' = 1 /\ piece' = <<>>)
       /\ (pc = "sector" /\ pieceIdx' # pieceIdx) => sectorIdx > pieceLen
       /\ (pc = "sector" /\ pc' = "sector" /\ <<sectorIdx, piece>>' # <<sectorIdx, piece>>) =>
             /\ sectorIdx <= pieceLen
             /\ sectorIdx' = sectorIdx + 1
             /\ Len(piece') = sectorIdx
             /\ SubSeq(piece', 1, Len(piece)) = piece
       /\ ~hist'.offList]_vars

\* the second slot of a chunk has had its two references, to different sectors,
\* read in turn and recovered
C26_Witness ==
    /\ pc = "sector"
    /\ pieceIdx = 1
    /\ sectorIdx = 3
    /\ Len(piece) = 2
    /\ piece[1] # piece[2]
    /\ sectorsRecovered = 2
    /\ fetched = MerkleRoots

\* C22: no goroutine of a recoverSector call that has returned stays blocked on a
\* send: after the return nobody receives from the results channel, so no worker
\* of the call holds a result for a results channel that is full
C22_NoSendBlockedForEver ==
    \A i \in DOMAIN races :
        races[i].returned => ~(races[i].res # {} /\ Len(races[i].resultsChan) >= workers)

\* C25: the cache of recovered sectors is touched by the orchestrating goroutine
\* only; every goroutine other than the orchestrating one touches the contract
\* map (and the height) only while it holds the renter's mutex; and no access
\* to the cache or the contract map coincides with a write to it by another
\* goroutine
C25_NoUnlockedSharing ==
    LET busy == {g \in DOMAIN Calls : inCall[g].in}
        sec(g) == Sections(inCall[g].op)[inCall[g].k]
        touched(g) == sec(g).reads \cup sec(g).writes
    IN  /\ \A g \in busy : "recoveredSectors" \in touched(g) => g = "main"
        /\ \A g \in busy :
              (g # "main" /\ touched(g) \cap {"contracts", "currentHeight"} # {}) => mu = g
        /\ \A g \in busy : sec(g).locked => mu = g
        /\ \A g, h \in busy : g # h => sec(g).writes \cap touched(h) = {}

\* the orchestrating goroutine is at the unlocked len(r.contracts) of save while
\* the worker reads the map under the mutex and the ticker waits for the mutex
C25_Witness ==
    /\ inCall["main"] = [op |-> "RemoveHostContract", k |-> 2, in |-> TRUE]
    /\ inCall["worker"] = [op |-> "HostContract", k |-> 1, in |-> TRUE]
    /\ mu = "worker"
    /\ inCall["ticker"] = [op |-> "refreshHeight", k |-> 1, in |-> FALSE]
    /\ \E h \in HostKeys : contracts[h] = 0

\* C33: the pieces decoded for a chunk come from the bytes read for the record of
\* that chunk alone: they are the pieces that the same bytes give in a buffer
\* that holds nothing of an earlier record
C33_OwnRecordOnly ==
    [][(lpc = "chunks" /\ loadIdx' = loadIdx + 1) =>
          sf'.Chunks[loadIdx'] =
              ParsePieces(ReadFull(ZeroBuf, SubSeq(chunkBuf', 1, readLen')), 0,
                          [p \in 0..(sf.DataPieces + sf.ParityPieces - 1) |-> <<>>]).Pieces]_vars

\* C34: Load does not crash: whatever the header, it ends with a topology or
\* with an error value and no topology
C34_LoadNeverCrashes ==
    /\ lpc # "panic"
    /\ lpc = "error" => sf = NoSiaFile

\* C31: save never leaves contracts.json partial: at every step, and so wherever
\* the process stops, contracts.json is what save found (no file when there was
\* none) or the whole document save was writing; the load of the next start
\* decodes it, and fails only for a file that never existed, with the
\* not-exist error that New accepts
C31_SaveIsAtomic ==
    [][rn # <<>> =>
          /\ rn'.json.state # "partial"
          /\ rn'.json = rn.json \/ rn'.json = [state |-> "complete", contracts |-> rn.meta]
          /\ rn'.pc # "newFailed"
          /\ rn'.loadErr \in {NoErr, "not exist"}
          /\ (rn.pc = "start" /\ rn'.loadErr = "not exist") => rn.json.state = "absent"
          /\ (rn.pc = "start" /\ rn.json.state = "complete") =>
                /\ rn'.loadErr = NoErr
                /\ contracts' = load(rn.json.contracts, currentHeight)]_vars

\* a stop between the creation of contracts.json.tmp and the rename, over a
\* contracts.json that differs from the set being written
C31_Witness ==
    /\ rn # <<>>
    /\ rn.stops = "inSave"
    /\ rn.pc = "start"
    /\ rn.tmp.state = "partial"
    /\ rn.json.state = "complete"
    /\ rn.json.contracts # rn.meta

\* C32: Close on a renter built by New does not fail: the first call closes the
\* close channel, stops the ticker goroutine and saves
C32_CloseDoesNotFail ==
    /\ rn # <<>> => rn.pc # "panic"
    /\ (rn # <<>> /\ rn.pc = "closed") => (rn.close = "closed" /\ ~rn.ticker)

\* C35: no output is held by two outstanding fundings, the outputs a funding
\* holds were spendable (not spent by an unconfirmed transaction, mature), and
\* the outputs marked used are exactly those of the outstanding fundings: a
\* funding marks what it selected, its release unmarks it, and a call that
\* ends with the insufficient-funds error marks nothing
C35_UsedAreTheOutstanding ==
    wl # <<>> =>
        /\ \A c, d \in 1..MaxCalls : c # d => wl.held[c] \cap wl.held[d] = {}
        /\ \A c \in 1..MaxCalls : \A id \in wl.held[c] :
              ~wl.utxo[id].spent /\ wl.utxo[id].mature
        /\ wl.used = UNION {wl.held[c] : c \in 1..MaxCalls}

\* C36: parseMetadata does not crash; when KeyByID finds the key, the call goes
\* on to derive the file key and decrypt, without findMatchingSkyKey; it falls
\* back to findMatchingSkyKey only on the no-key-with-that-ID error
C36_FoundKeyIsUsed ==
    mb # <<>> =>
        /\ mb.pc # "panic"
        /\ mb.fellBack => mb.byID = "no Skykeys with that ID"
        /\ (mb.byID = NoErr /\ mb.pc \in {"derive", "parse", "done", "error"}) =>
              (~mb.fellBack /\ mb.masterSkykey = KeyByID(mb.skykeys).key)
====
